---- MODULE Spec2Model ----
(***************************************************************************)
(* Trusted Log Attestation pipeline (logchain).                            *)
(*                                                                         *)
(* Two processes share the state table tbl_log_status and the Kafka topic: *)
(*   - the attestation engine (processing/worker.go): worker loops that    *)
(*     batch queue messages, claim their rows, submit them to the ledger   *)
(*     and acknowledge the queue;                  specification Spec      *)
(*   - the ingestion service (ingestion/service/core): receipt service and *)
(*     batcher that insert rows and publish messages;                      *)
(*                                                 specification SpecIngest*)
(* The state store implementation (tlng/storage/store) is not part of the  *)
(* sources; its bulk primitives are modelled from section 4.3 of the       *)
(* specification.  The ledger contract is modelled from                    *)
(* blockchain/contracts.md.                                                *)
(***************************************************************************)
EXTENDS Integers, Sequences, FiniteSets, TLC

\* ------------------------------------------------------------------ bounds
NumReq == 2            \* request ids are 1..NumReq
NumHash == 2           \* distinct log hashes 1..NumHash
NumLoops == 2          \* worker loops of the engine (worker.concurrency)
BatchSize == 2         \* worker.batch_size
MaxTaskRetries == 2    \* max_task_retries
MaxFaults == 1         \* failures injected in one run (store, ledger transport, contract state db)
MaxRedeliver == 2      \* restarts of the consumer group from the committed offset in one run
NumSubmit == 3         \* submissions accepted by the ingestion service in one run
IngestBatchSize == 2   \* batch_processor.batch_size
FlushChannelBuffer == 1   \* batch_processor.flush_channel_buffer

RID == 1..NumReq
Hashes == 1..NumHash
Loops == 1..NumLoops

Terminal == {"COMPLETED", "FAILED"}
NoRow == [status |-> "ABSENT"]

VARIABLES
    rows,           \* tbl_log_status: request_id -> row (or NoRow)
    queue,          \* the topic partition: sequence of LogMessage, offset i-1 at index i
    committed,      \* committed offset of the consumer group (next offset after restart)
    fetchPos,       \* next offset the reader hands out
    chain,          \* ledger contract state: set of log hashes stored
    txCount,        \* number of transactions the ledger has committed
    callsFailed,    \* request id -> ledger calls carrying it that failed as a whole
    callsCommitted, \* request id -> ledger calls carrying it that were committed
    faults,         \* number of failures injected so far
    redelivered,    \* number of restarts from the committed offset so far
    ctxDone,        \* the root context of the engine is cancelled
    pc,             \* per worker loop: position in processMessagesInBatch / handleBatch
    batchMessages,  \* per worker loop: pending messages (with their acks)
    batchTimer,     \* per worker loop: "off" or "armed"
    tasksFromDB,    \* per worker loop: request ids of the rows claim_batch returned
    validTasks,     \* per worker loop: request ids claimed in PROCESSING
    validEntries,   \* per worker loop: ledger entries of the current pass
    results,        \* per worker loop: per-entry results of the ledger call
    batchProof,     \* per worker loop: transaction id and block height of the call
    nextID,         \* ingestion: the next request id uuid.NewString() returns
    inputs,         \* ingestion: request id -> LogInput handed to the batcher
    sub,            \* ingestion: request id -> position of its BatchProcessor.SubmitLog goroutine
    subBatch,       \* ingestion: request id -> batch that goroutine drained for the flush channel
    buffer,         \* ingestion: bp.buffer
    flushChan,      \* ingestion: bp.flushChan
    chanClosed,     \* ingestion: bp.flushChan is closed
    bpCtxDone,      \* ingestion: bp.ctx is cancelled
    timerPc,        \* ingestion: position of the batchTimer goroutine
    timerBatch,     \* ingestion: batch flushIfNeeded copied out of the buffer
    fwPc,           \* ingestion: position of the batchProcessor goroutine
    fwBatch,        \* ingestion: batch in processBatch
    fwFinal,        \* ingestion: processBatch runs on the remaining buffer at shutdown
    closePc,        \* ingestion: position of Close
    writer,         \* ingestion: settings of the kafka.Writer NewKafkaProducer built
    kafkaErr,       \* ingestion: what the last PublishBatch returned to processBatch
    receipt         \* ingestion: the last call of Service.SubmitLog, its input and what it returned

vars == <<rows, queue, committed, fetchPos, chain, txCount, callsFailed, callsCommitted,
          faults, redelivered, ctxDone, pc,
          batchMessages, batchTimer, tasksFromDB, validTasks, validEntries, results, batchProof,
          nextID, inputs, sub, subBatch, buffer, flushChan, chanClosed, bpCtxDone,
          timerPc, timerBatch, fwPc, fwBatch, fwFinal, closePc, writer, kafkaErr, receipt>>

queueVars == <<queue, committed, fetchPos>>
ledgerVars == <<chain, txCount, callsFailed, callsCommitted>>
passVars == <<tasksFromDB, validTasks, validEntries, results, batchProof>>
envVars == <<faults, redelivered>>
workerVars == <<ctxDone, pc, batchMessages, batchTimer, passVars>>
producerVars == <<writer, kafkaErr>>
ingestVars == <<nextID, inputs, sub, subBatch, buffer, flushChan, chanClosed, bpCtxDone,
                timerPc, timerBatch, fwPc, fwBatch, fwFinal, closePc, producerVars, receipt>>

\* ------------------------------------------------------------------ helpers
Max(a, b) == IF a >= b THEN a ELSE b

Range(s) == {s[i] : i \in DOMAIN s}

\* All orders in which the elements of a finite set can be enumerated
\* (iteration order of a Go map is unspecified).
Orderings(S) ==
    {s \in [1..Cardinality(S) -> S] : \A i, j \in DOMAIN s : i # j => s[i] # s[j]}

\* ------------------------------------------------------------------ state store
NewRow(h, org) ==
    [status |-> "RECEIVED", retry_count |-> 0, log_hash |-> h, source_org_id |-> org,
     tx_hash |-> 0, block_height |-> 0, log_hash_on_chain |-> 0, error_message |-> "none"]

\* insert_batch: unique-key batch insert of RECEIVED rows; newRows: request_id -> row
InsertLogStatusBatch(t, newRows) ==
    [r \in DOMAIN t |-> IF r \in DOMAIN newRows THEN newRows[r] ELSE t[r]]

\* insert_batch is refused as a whole when a key of the batch is already present
InsertConflict(t, newRows) == \E r \in DOMAIN newRows : t[r] # NoRow

\* claim_batch, one row, claiming whatever the status: a terminal row is
\* taken up again
ClaimRowAnyStatus(row, maxRetries) ==
    IF row.retry_count >= maxRetries
    THEN [row EXCEPT !.status = "FAILED", !.error_message = "max retries exceeded"]
    ELSE [row EXCEPT !.status = "PROCESSING", !.retry_count = @ + 1]

\* claim_batch, one row, without counting the claim in retry_count
ClaimRowNoCount(row, maxRetries) ==
    IF row.status \in {"RECEIVED", "PROCESSING"}
    THEN IF row.retry_count >= maxRetries
         THEN [row EXCEPT !.status = "FAILED", !.error_message = "max retries exceeded"]
         ELSE [row EXCEPT !.status = "PROCESSING"]
    ELSE row

\* claim_batch, one row
ClaimRow(row, maxRetries) ==
    IF row.status \in {"RECEIVED", "PROCESSING"}
    THEN IF row.retry_count >= maxRetries
         THEN [row EXCEPT !.status = "FAILED", !.error_message = "max retries exceeded"]
         ELSE [row EXCEPT !.status = "PROCESSING", !.retry_count = @ + 1]
    ELSE row

\* claim_batch: the table after the call
GetAndMarkBatchAsProcessing(t, ids, maxRetries) ==
    [r \in DOMAIN t |-> IF r \in ids /\ t[r] # NoRow THEN ClaimRow(t[r], maxRetries) ELSE t[r]]

\* claim_batch: the ids of the returned map (absent and terminal rows are omitted)
TasksFromDB(t, ids) ==
    {r \in ids : t[r] # NoRow /\ t[r].status \in {"RECEIVED", "PROCESSING"}}

\* mark_for_retry
MarkBatchForRetry(t, ids, msg) ==
    [r \in DOMAIN t |-> IF r \in ids /\ t[r] # NoRow /\ t[r].status = "PROCESSING"
                   THEN [t[r] EXCEPT !.error_message = msg]
                   ELSE t[r]]

\* mark_completed_batch without its guard on the status
MarkBatchAsCompletedUnguarded(t, completions) ==
    [r \in DOMAIN t |-> IF r \in DOMAIN completions /\ t[r] # NoRow
                   THEN [t[r] EXCEPT !.status = "COMPLETED",
                                     !.tx_hash = completions[r].TxHash,
                                     !.log_hash_on_chain = completions[r].LogHashOnChain,
                                     !.block_height = completions[r].BlockHeight]
                   ELSE t[r]]

\* mark_completed_batch; completions: request_id -> CompletionRecord
MarkBatchAsCompleted(t, completions) ==
    [r \in DOMAIN t |-> IF r \in DOMAIN completions /\ t[r] # NoRow /\ t[r].status = "PROCESSING"
                   THEN [t[r] EXCEPT !.status = "COMPLETED",
                                     !.tx_hash = completions[r].TxHash,
                                     !.log_hash_on_chain = completions[r].LogHashOnChain,
                                     !.block_height = completions[r].BlockHeight]
                   ELSE t[r]]

\* mark_failed_batch without its guard on terminal rows
MarkBatchAsFailedUnguarded(t, failures) ==
    [r \in DOMAIN t |-> IF r \in DOMAIN failures /\ t[r] # NoRow
                   THEN [t[r] EXCEPT !.status = "FAILED", !.error_message = failures[r]]
                   ELSE t[r]]

\* mark_failed_batch; failures: request_id -> error message
MarkBatchAsFailed(t, failures) ==
    [r \in DOMAIN t |-> IF r \in DOMAIN failures /\ t[r] # NoRow /\ t[r].status \notin Terminal
                   THEN [t[r] EXCEPT !.status = "FAILED", !.error_message = failures[r]]
                   ELSE t[r]]

\* ------------------------------------------------------------------ ledger contract
\* Environment outcome of one entry inside the contract: the state database
\* answers, or GetState fails, or PutState fails.
Faults == {"ok", "getErr", "putErr"}

\* The verdict of the contract for one entry (contracts.md, submitLogsBatch loop body)
EntryStatus(entry, state, fault) ==
    IF entry.LogHash = 0 \/ entry.SenderOrgID = "" THEN "ErrorValidation"
    ELSE IF fault = "getErr" THEN "ErrorStateCheck"
    ELSE IF entry.LogHash \in state THEN "SkippedDuplicate"
    ELSE IF fault = "putErr" THEN "ErrorPutState"
    ELSE "Success"

\* submit_logs_batch of the contract: entries are processed in order, each one
\* seeing the writes of the entries before it; one result per entry.
RECURSIVE submitLogsBatch(_, _, _)
submitLogsBatch(entries, state, fl) ==
    IF entries = <<>>
    THEN [results |-> <<>>, state |-> state]
    ELSE LET e == Head(entries)
             st == EntryStatus(e, state, Head(fl))
             state1 == IF st = "Success" THEN state \cup {e.LogHash} ELSE state
             rest == submitLogsBatch(Tail(entries), state1, Tail(fl))
         IN  [results |-> <<[LogHash |-> e.LogHash, Status |-> st]>> \o rest.results,
              state |-> rest.state]

\* ------------------------------------------------------------------ worker: pure parts of handleBatch
\* requestIDs: the non-empty request ids of the batch
RequestIDs(batch) == {batch[i].RequestID : i \in DOMAIN batch} \ {0}

\* msgMap[reqID]: the last message of the batch carrying that id
MsgOf(batch, reqID) ==
    batch[CHOOSE i \in DOMAIN batch :
            /\ batch[i].RequestID = reqID
            /\ \A j \in DOMAIN batch : batch[j].RequestID = reqID => j <= i]

\* The ledger entry built for a claimed request; RequestID is bookkeeping of the
\* model (which request the entry was built for) and is not sent to the ledger.
EntryOf(batch, reqID) ==
    [LogHash |-> MsgOf(batch, reqID).LogHash,
     SenderOrgID |-> MsgOf(batch, reqID).SourceOrgID,
     RequestID |-> reqID]

\* claim_batch called with a cap that is one too high
ClaimBatchNoCap(t, ids) == GetAndMarkBatchAsProcessing(t, ids, MaxTaskRetries + 1)

\* The call of the state store's claim_batch made by handleBatch
ClaimBatch(t, ids) == GetAndMarkBatchAsProcessing(t, ids, MaxTaskRetries)

\* resultsMap: log_hash -> result; a later result overwrites an earlier one
ResultsMap(res) ==
    [h \in {res[i].LogHash : i \in DOMAIN res} |->
        res[CHOOSE i \in DOMAIN res :
              /\ res[i].LogHash = h
              /\ \A j \in DOMAIN res : res[j].LogHash = h => j <= i]]

\* The verdict handleBatch uses for a claimed task ("Missing" when not found)
VerdictOf(t, res, reqID) ==
    LET m == ResultsMap(res)
    IN  IF t[reqID].log_hash \in DOMAIN m THEN m[t[reqID].log_hash].Status ELSE "Missing"

\* A completion record that takes the hash of the first result of the call
CompletionRecordFirstResult(t, res, proof, reqID) ==
    [TxHash |-> proof.TransactionID,
     LogHashOnChain |-> res[1].LogHash,
     BlockHeight |-> proof.BlockHeight]

\* completions[i]: the record handleBatch builds for a Success verdict
CompletionRecord(t, res, proof, reqID) ==
    [TxHash |-> proof.TransactionID,
     LogHashOnChain |-> ResultsMap(res)[t[reqID].log_hash].LogHash,
     BlockHeight |-> proof.BlockHeight]

\* completions built for every claimed task, whatever its verdict
CompletionsAnyVerdict(t, valid, res, proof) ==
    [r \in {x \in valid : VerdictOf(t, res, x) # "Missing"} |->
        CompletionRecord(t, res, proof, r)]

\* completions: request_id -> CompletionRecord
Completions(t, valid, res, proof) ==
    [r \in {x \in valid : VerdictOf(t, res, x) = "Success"} |->
        CompletionRecord(t, res, proof, r)]

\* failures: request_id -> error message
Failures(t, valid, res) ==
    [r \in {x \in valid : VerdictOf(t, res, x) # "Success"} |->
        IF VerdictOf(t, res, r) = "Missing" THEN "missing result" ELSE "contract failed"]

\* Offset committed after CommitMessages was called for every message of the batch
CommitAll(off, batch) ==
    IF batch = <<>> THEN off
    ELSE Max(off, 1 + Max(0, CHOOSE o \in {batch[i].Offset : i \in DOMAIN batch} :
                                  \A i \in DOMAIN batch : batch[i].Offset <= o))

NoProof == [TransactionID |-> 0, BlockHeight |-> 0]

\* ------------------------------------------------------------------ ingestion: queue producer
\* config.KafkaProducerConfig, the two settings that decide how a write ends
KafkaProducerConfigs == [Async : BOOLEAN, RequiredAcks : {"", "none", "one", "all"}]

\* NewKafkaProducer: the settings of the kafka.Writer built from a configuration
NewKafkaProducer(cfg) ==
    [RequiredAcks |-> IF cfg.RequiredAcks \in {"none", "one", "all"}
                      THEN cfg.RequiredAcks ELSE "one",
     Async |-> IF ~cfg.Async /\ cfg.RequiredAcks = "" THEN TRUE ELSE cfg.Async]

Prefixes(msgs) == {SubSeq(msgs, 1, n) : n \in 0..Len(msgs)}

\* KafkaProducer.PublishBatch: the ways writer.WriteMessages can end.  Nothing
\* goes wrong: every message is written and nil returned.  A write fails on
\* the way to the broker: any prefix of the batch may have been written; an
\* asynchronous writer has returned nil before, a writer that waits for no
\* acknowledgement may notice the failure or not, a writer that waits for
\* acknowledgements returns the error.
PublishBatch(w, msgs) ==
    {[err |-> "nil", written |-> msgs, failed |-> FALSE]}
    \cup {[err |-> e, written |-> p, failed |-> TRUE] :
             p \in Prefixes(msgs),
             e \in IF w.Async THEN {"nil"}
                   ELSE IF w.RequiredAcks = "none" THEN {"nil", "error"}
                   ELSE {"error"}}

\* ------------------------------------------------------------------ engine: state after construction
Orgs == {"", "org"}

LogMessage(r, h, org) == [RequestID |-> r, LogHash |-> h, SourceOrgID |-> org]

\* A payload that json.Unmarshal rejects; it stands outside the values
\* LogMessage produces
Garbage == [RequestID |-> 0, LogHash |-> 0, SourceOrgID |-> "not json"]

\* KafkaConsumer.Consume: does json.Unmarshal accept the payload
Deserializes(value) == value # Garbage

\* An empty ledger that has been called for no request yet
LedgerInit ==
    /\ chain = {}
    /\ txCount = 0
    /\ callsFailed = [r \in RID |-> 0]
    /\ callsCommitted = [r \in RID |-> 0]

WorkerInit ==
    /\ ctxDone = FALSE
    /\ pc = [w \in Loops |-> "loop"]
    /\ batchMessages = [w \in Loops |-> <<>>]
    /\ batchTimer = [w \in Loops |-> "off"]
    /\ tasksFromDB = [w \in Loops |-> {}]
    /\ validTasks = [w \in Loops |-> {}]
    /\ validEntries = [w \in Loops |-> <<>>]
    /\ results = [w \in Loops |-> <<>>]
    /\ batchProof = [w \in Loops |-> NoProof]

\* NewService / NewBatchProcessor: empty buffer, open flush channel, the timer
\* and the flush worker started.
BatcherInit ==
    /\ nextID = 1
    /\ inputs = [g \in 1..NumSubmit |-> [LogHash |-> 0, SourceOrgID |-> ""]]
    /\ sub = [g \in 1..NumSubmit |-> "none"]
    /\ subBatch = [g \in 1..NumSubmit |-> <<>>]
    /\ buffer = <<>>
    /\ flushChan = <<>>
    /\ chanClosed = FALSE
    /\ bpCtxDone = FALSE
    /\ timerPc = "wait"
    /\ timerBatch = <<>>
    /\ fwPc = "select"
    /\ fwBatch = <<>>
    /\ fwFinal = FALSE
    /\ closePc = "open"
    /\ receipt = [content |-> 0, clientHash |-> 0, err |-> "none",
                  RequestID |-> 0, ServerLogHash |-> 0]

\* NewKafkaProducer called with a configuration; nothing published yet
ProducerInit(cfg) ==
    /\ writer = NewKafkaProducer(cfg)
    /\ kafkaErr = "none"

\* The service as it is run when the producer configuration is not what is
\* looked at: synchronous writes acknowledged by all replicas
IngestInit ==
    /\ BatcherInit
    /\ ProducerInit([Async |-> FALSE, RequiredAcks |-> "all"])

\* The engine starts on a table and a topic filled by the ingestion service:
\* one RECEIVED row and one queue message per request (scripts/test-data.sql).
Init ==
    /\ \E h \in [RID -> Hashes], o \in [RID -> Orgs] :
          /\ h[1] = 1 /\ o[1] = "org"
          /\ rows = [r \in RID |-> NewRow(h[r], o[r])]
          /\ queue = [r \in RID |-> LogMessage(r, h[r], o[r])]
    /\ committed = 0
    /\ fetchPos = 0
    /\ LedgerInit
    /\ faults = 0
    /\ redelivered = 0
    /\ WorkerInit
    /\ IngestInit

\* ------------------------------------------------------------------ environment failures
\* n more operations of this step fail (an error returned by the state store,
\* by the ledger transport, or by the state database inside the contract).
Inject(n) == /\ faults + n <= MaxFaults
             /\ faults' = faults + n

\* A call of the state store made with the worker's context: it is refused once
\* the context is cancelled, and may fail for reasons of its own before that.
StoreOK == /\ ~ctxDone
           /\ Inject(0)

StoreErr == IF ctxDone THEN Inject(0) ELSE Inject(1)

\* ------------------------------------------------------------------ engine: wiring of loops and consumers
\* main (engine) builds one consumer per kafka_consumer.count and one Worker
\* per consumer; Worker.Run starts worker.concurrency loops, each of them
\* calling processMessagesInBatch on the Worker's consumer.  A loop is named
\* by its Worker and its number within the Worker.
WorkerLoops(count, concurrency) == (1..count) \X (1..concurrency)

\* The consumer instance a loop calls Consume on: w.consumer of its Worker
ConsumerOf(loop) == loop[1]

\* The loops of this model are the loops of the first Worker.
LoopOf(w) == <<1, w>>

\* ------------------------------------------------------------------ engine: worker loop
\* processMessagesInBatch, default branch of the select, without the
\* batchTimer.Reset at the first pending message
ConsumeNoReset(w) ==
    /\ pc[w] = "loop"
    /\ ~ctxDone
    /\ fetchPos < Len(queue)
    /\ Deserializes(queue[fetchPos + 1])
    /\ LET m == queue[fetchPos + 1]
           msg == [RequestID |-> m.RequestID, LogHash |-> m.LogHash,
                   SourceOrgID |-> m.SourceOrgID, Offset |-> fetchPos]
           batch == Append(batchMessages[w], msg)
       IN  /\ batchMessages' = [batchMessages EXCEPT ![w] = batch]
           /\ IF Len(batch) >= BatchSize
              THEN /\ batchTimer' = [batchTimer EXCEPT ![w] = "off"]
                   /\ pc' = [pc EXCEPT ![w] = "claim"]
              ELSE /\ batchTimer' = batchTimer
                   /\ pc' = pc
    /\ fetchPos' = fetchPos + 1
    /\ UNCHANGED <<ingestVars, rows, queue, committed, ledgerVars, envVars, ctxDone, passVars>>

\* processMessagesInBatch, default branch of the select: Consume returned a
\* message.  (A poll that times out or fails changes nothing and loops.)
\* The message is appended with its ack; a full batch goes to processBatch.
Consume(w) ==
    /\ pc[w] = "loop"
    /\ ~ctxDone
    /\ fetchPos < Len(queue)
    /\ Deserializes(queue[fetchPos + 1])
    /\ LET m == queue[fetchPos + 1]
           msg == [RequestID |-> m.RequestID, LogHash |-> m.LogHash,
                   SourceOrgID |-> m.SourceOrgID, Offset |-> fetchPos]
           batch == Append(batchMessages[w], msg)
       IN  /\ batchMessages' = [batchMessages EXCEPT ![w] = batch]
           /\ IF Len(batch) >= BatchSize
              THEN /\ batchTimer' = [batchTimer EXCEPT ![w] = "off"]
                   /\ pc' = [pc EXCEPT ![w] = "claim"]
              ELSE /\ batchTimer' = [batchTimer EXCEPT ![w] =
                                        IF batchMessages[w] = <<>> THEN "armed" ELSE @]
                   /\ pc' = pc
    /\ fetchPos' = fetchPos + 1
    /\ UNCHANGED <<ingestVars, rows, queue, committed, ledgerVars, envVars, ctxDone, passVars>>

\* processMessagesInBatch, case <-batchTimer.C: the timer armed at the first
\* pending message has expired; processBatch() stops it and runs the pass.
BatchTimeout(w) ==
    /\ pc[w] = "loop"
    /\ batchTimer[w] = "armed"
    /\ batchTimer' = [batchTimer EXCEPT ![w] = "off"]
    /\ pc' = [pc EXCEPT ![w] = IF batchMessages[w] = <<>> THEN "loop" ELSE "claim"]
    /\ UNCHANGED <<ingestVars, rows, queueVars, ledgerVars, envVars, ctxDone, batchMessages, passVars>>

\* processMessagesInBatch, case <-ctx.Done(), calling ack(true) on what is pending
ContextDoneAck(w) ==
    /\ pc[w] = "loop"
    /\ ctxDone
    /\ pc' = [pc EXCEPT ![w] = "stopped"]
    /\ committed' = CommitAll(committed, batchMessages[w])
    /\ batchMessages' = [batchMessages EXCEPT ![w] = <<>>]
    /\ batchTimer' = [batchTimer EXCEPT ![w] = "off"]
    /\ UNCHANGED <<ingestVars, rows, queue, fetchPos, ledgerVars, envVars, ctxDone, passVars>>

\* processMessagesInBatch, case <-ctx.Done(), refusing what is pending and going
\* on with the loop instead of returning
ContextDoneContinue(w) ==
    /\ pc[w] = "loop"
    /\ ctxDone
    /\ pc' = pc
    /\ batchMessages' = [batchMessages EXCEPT ![w] = <<>>]
    /\ batchTimer' = [batchTimer EXCEPT ![w] = "off"]
    /\ UNCHANGED <<ingestVars, rows, queueVars, ledgerVars, envVars, ctxDone, passVars>>

\* processMessagesInBatch, case <-ctx.Done(): nack what is pending and return
ContextDone(w) ==
    /\ pc[w] = "loop"
    /\ ctxDone
    /\ pc' = [pc EXCEPT ![w] = "stopped"]
    /\ batchMessages' = [batchMessages EXCEPT ![w] = <<>>]
    /\ batchTimer' = [batchTimer EXCEPT ![w] = "off"]
    /\ UNCHANGED <<ingestVars, rows, queueVars, ledgerVars, envVars, ctxDone, passVars>>

\* handleBatch, step 1, without the switch on task.Status: every returned row
\* goes into the ledger submission
HandleBatchClaimNoFilter(w) ==
    /\ pc[w] = "claim"
    /\ LET ids == RequestIDs(batchMessages[w]) IN
       IF ids = {}
       THEN /\ pc' = [pc EXCEPT ![w] = "ack"]
            /\ UNCHANGED <<rows, faults, tasksFromDB, validTasks, validEntries>>
       ELSE \/ /\ StoreErr
               /\ pc' = [pc EXCEPT ![w] = "nack"]
               /\ UNCHANGED <<rows, tasksFromDB, validTasks, validEntries>>
            \/ /\ StoreOK
               /\ rows' = ClaimBatch(rows, ids)
               /\ LET valid == TasksFromDB(rows, ids)
                  IN  /\ tasksFromDB' = [tasksFromDB EXCEPT ![w] =
                                            IF valid = {} THEN {} ELSE TasksFromDB(rows, ids)]
                      /\ validTasks' = [validTasks EXCEPT ![w] = valid]
                      /\ \E ord \in Orderings(valid) :
                            validEntries' = [validEntries EXCEPT ![w] =
                                [i \in DOMAIN ord |-> EntryOf(batchMessages[w], ord[i])]]
                      /\ pc' = [pc EXCEPT ![w] = IF valid = {} THEN "ack" ELSE "submit"]
    /\ UNCHANGED <<ingestVars, queueVars, ledgerVars, redelivered, ctxDone, batchMessages, batchTimer,
                   results, batchProof>>

\* handleBatch, step 1, without the return on an empty validEntries: the ledger
\* is called with whatever was collected
HandleBatchClaimNoEmptyCheck(w) ==
    /\ pc[w] = "claim"
    /\ LET ids == RequestIDs(batchMessages[w]) IN
       IF ids = {}
       THEN /\ pc' = [pc EXCEPT ![w] = "ack"]
            /\ UNCHANGED <<rows, faults, tasksFromDB, validTasks, validEntries>>
       ELSE \/ /\ StoreErr
               /\ pc' = [pc EXCEPT ![w] = "nack"]
               /\ UNCHANGED <<rows, tasksFromDB, validTasks, validEntries>>
            \/ /\ StoreOK
               /\ rows' = ClaimBatch(rows, ids)
               /\ LET valid == {r \in TasksFromDB(rows, ids) : rows'[r].status = "PROCESSING"}
                  IN  /\ tasksFromDB' = [tasksFromDB EXCEPT ![w] =
                                            TasksFromDB(rows, ids)]
                      /\ validTasks' = [validTasks EXCEPT ![w] = valid]
                      /\ \E ord \in Orderings(valid) :
                            validEntries' = [validEntries EXCEPT ![w] =
                                [i \in DOMAIN ord |-> EntryOf(batchMessages[w], ord[i])]]
                      /\ pc' = [pc EXCEPT ![w] = "submit"]
    /\ UNCHANGED <<ingestVars, queueVars, ledgerVars, redelivered, ctxDone, batchMessages, batchTimer,
                   results, batchProof>>

\* handleBatch, step 1, returning nil when GetAndMarkBatchAsProcessing returns
\* an error
HandleBatchClaimIgnoreError(w) ==
    /\ pc[w] = "claim"
    /\ LET ids == RequestIDs(batchMessages[w]) IN
       IF ids = {}
       THEN /\ pc' = [pc EXCEPT ![w] = "ack"]
            /\ UNCHANGED <<rows, faults, tasksFromDB, validTasks, validEntries>>
       ELSE \/ /\ StoreErr
               /\ pc' = [pc EXCEPT ![w] = "ack"]
               /\ UNCHANGED <<rows, tasksFromDB, validTasks, validEntries>>
            \/ /\ StoreOK
               /\ rows' = ClaimBatch(rows, ids)
               /\ LET valid == {r \in TasksFromDB(rows, ids) : rows'[r].status = "PROCESSING"}
                  IN  /\ tasksFromDB' = [tasksFromDB EXCEPT ![w] =
                                            IF valid = {} THEN {} ELSE TasksFromDB(rows, ids)]
                      /\ validTasks' = [validTasks EXCEPT ![w] = valid]
                      /\ \E ord \in Orderings(valid) :
                            validEntries' = [validEntries EXCEPT ![w] =
                                [i \in DOMAIN ord |-> EntryOf(batchMessages[w], ord[i])]]
                      /\ pc' = [pc EXCEPT ![w] = IF valid = {} THEN "ack" ELSE "submit"]
    /\ UNCHANGED <<ingestVars, queueVars, ledgerVars, redelivered, ctxDone, batchMessages, batchTimer,
                   results, batchProof>>

\* handleBatch, step 1: claim the rows of the batch
HandleBatchClaim(w) ==
    /\ pc[w] = "claim"
    /\ LET ids == RequestIDs(batchMessages[w]) IN
       IF ids = {}
       THEN /\ pc' = [pc EXCEPT ![w] = "ack"]
            /\ UNCHANGED <<rows, faults, tasksFromDB, validTasks, validEntries>>
       ELSE \/ \* GetAndMarkBatchAsProcessing returns an error
               /\ StoreErr
               /\ pc' = [pc EXCEPT ![w] = "nack"]
               /\ UNCHANGED <<rows, tasksFromDB, validTasks, validEntries>>
            \/ /\ StoreOK
               /\ rows' = ClaimBatch(rows, ids)
               /\ LET valid == {r \in TasksFromDB(rows, ids) : rows'[r].status = "PROCESSING"}
                  IN  /\ tasksFromDB' = [tasksFromDB EXCEPT ![w] =
                                            IF valid = {} THEN {} ELSE TasksFromDB(rows, ids)]
                      /\ validTasks' = [validTasks EXCEPT ![w] = valid]
                      /\ \E ord \in Orderings(valid) :
                            validEntries' = [validEntries EXCEPT ![w] =
                                [i \in DOMAIN ord |-> EntryOf(batchMessages[w], ord[i])]]
                      /\ pc' = [pc EXCEPT ![w] = IF valid = {} THEN "ack" ELSE "submit"]
    /\ UNCHANGED <<ingestVars, queueVars, ledgerVars, redelivered, ctxDone, batchMessages, batchTimer,
                   results, batchProof>>

\* handleBatch, step 2: the ledger call returns, be it before or after the
\* deadline of invokeCtx (InvokeDeadline below)
SubmitLogsBatch(w) ==
    /\ pc[w] \in {"submit", "overdue"}
    /\ \/ \* transport or contract-level error
          /\ Inject(1)
          /\ pc' = [pc EXCEPT ![w] = "retry"]
          /\ callsFailed' = [r \in RID |-> IF r \in validTasks[w] THEN callsFailed[r] + 1
                                                             ELSE callsFailed[r]]
          /\ UNCHANGED <<chain, txCount, callsCommitted, results, batchProof>>
       \/ \E fl \in [DOMAIN validEntries[w] -> Faults] :
             LET out == submitLogsBatch(validEntries[w], chain, fl) IN
             /\ Inject(Cardinality({i \in DOMAIN fl : fl[i] # "ok"}))
             /\ chain' = out.state
             /\ txCount' = txCount + 1
             /\ callsCommitted' = [r \in RID |-> IF r \in validTasks[w]
                                                 THEN callsCommitted[r] + 1
                                                 ELSE callsCommitted[r]]
             /\ callsFailed' = callsFailed
             /\ results' = [results EXCEPT ![w] = out.results]
             /\ batchProof' = [batchProof EXCEPT ![w] =
                                 [TransactionID |-> txCount + 1, BlockHeight |-> txCount + 1]]
             /\ pc' = [pc EXCEPT ![w] = "markCompleted"]
    /\ UNCHANGED <<ingestVars, rows, queueVars, redelivered, ctxDone, batchMessages, batchTimer,
                   tasksFromDB, validTasks, validEntries>>

\* The locals of handleBatch die when it returns.
ResetPass(w) ==
    /\ tasksFromDB' = [tasksFromDB EXCEPT ![w] = {}]
    /\ validTasks' = [validTasks EXCEPT ![w] = {}]
    /\ validEntries' = [validEntries EXCEPT ![w] = <<>>]
    /\ results' = [results EXCEPT ![w] = <<>>]
    /\ batchProof' = [batchProof EXCEPT ![w] = NoProof]

\* handleBatch, step 3 on error, marking the claimed rows FAILED instead
HandleSubmitErrorMarkFailed(w) ==
    /\ pc[w] = "retry"
    /\ \/ StoreOK /\ rows' = MarkBatchAsFailed(rows, [r \in validTasks[w] |-> "ledger error"])
       \/ StoreErr /\ rows' = rows
    /\ pc' = [pc EXCEPT ![w] = "nack"]
    /\ ResetPass(w)
    /\ UNCHANGED <<ingestVars, queueVars, ledgerVars, redelivered, ctxDone, batchMessages, batchTimer>>

\* handleBatch, step 3 on error: MarkBatchForRetry (a failure of it is only
\* logged), then return the error
HandleSubmitError(w) ==
    /\ pc[w] = "retry"
    /\ \/ StoreOK /\ rows' = MarkBatchForRetry(rows, validTasks[w], "ledger error")
       \/ StoreErr /\ rows' = rows
    /\ pc' = [pc EXCEPT ![w] = "nack"]
    /\ ResetPass(w)
    /\ UNCHANGED <<ingestVars, queueVars, ledgerVars, redelivered, ctxDone, batchMessages, batchTimer>>

\* handleBatch, step 3 on success: MarkBatchAsCompleted for the completions
\* (a failure of the update is collected in updateErrors and logged)
HandleMarkCompleted(w) ==
    /\ pc[w] = "markCompleted"
    /\ LET completions == Completions(rows, validTasks[w], results[w], batchProof[w]) IN
       IF DOMAIN completions = {}
       THEN Inject(0) /\ rows' = rows
       ELSE \/ StoreOK /\ rows' = MarkBatchAsCompleted(rows, completions)
            \/ StoreErr /\ rows' = rows
    /\ pc' = [pc EXCEPT ![w] = "markFailed"]
    /\ UNCHANGED <<ingestVars, queueVars, ledgerVars, redelivered, ctxDone, batchMessages, batchTimer,
                   passVars>>

\* handleBatch, step 3 on success: MarkBatchAsFailed for the failures
\* (a failure of the update is collected in updateErrors and logged), return nil
HandleMarkFailed(w) ==
    /\ pc[w] = "markFailed"
    /\ LET failures == Failures(rows, validTasks[w], results[w]) IN
       IF DOMAIN failures = {}
       THEN Inject(0) /\ rows' = rows
       ELSE \/ StoreOK /\ rows' = MarkBatchAsFailed(rows, failures)
            \/ StoreErr /\ rows' = rows
    /\ pc' = [pc EXCEPT ![w] = "ack"]
    /\ ResetPass(w)
    /\ UNCHANGED <<ingestVars, queueVars, ledgerVars, redelivered, ctxDone, batchMessages, batchTimer>>

\* processAndAckBatch, handleBatch returned nil, calling ack(false) for every
\* message: no offset is committed
AckBatchRefuse(w) ==
    /\ pc[w] = "ack"
    /\ batchMessages' = [batchMessages EXCEPT ![w] = <<>>]
    /\ pc' = [pc EXCEPT ![w] = "loop"]
    /\ UNCHANGED <<ingestVars, rows, queueVars, ledgerVars, envVars, ctxDone, batchTimer, passVars>>

\* processAndAckBatch, handleBatch returned nil: ack(true) for every message
AckBatch(w) ==
    /\ pc[w] = "ack"
    /\ committed' = CommitAll(committed, batchMessages[w])
    /\ batchMessages' = [batchMessages EXCEPT ![w] = <<>>]
    /\ pc' = [pc EXCEPT ![w] = "loop"]
    /\ UNCHANGED <<ingestVars, rows, queue, fetchPos, ledgerVars, envVars, ctxDone, batchTimer, passVars>>

\* processAndAckBatch, handleBatch returned an error: ack(false) for every
\* message, the messages and their acks being kept for the next pass
NackBatchKeep(w) ==
    /\ pc[w] = "nack"
    /\ batchMessages' = batchMessages
    /\ pc' = [pc EXCEPT ![w] = "loop"]
    /\ UNCHANGED <<ingestVars, rows, queueVars, ledgerVars, envVars, ctxDone, batchTimer, passVars>>

\* processAndAckBatch, handleBatch returned an error: ack(false) for every message
NackBatch(w) ==
    /\ pc[w] = "nack"
    /\ batchMessages' = [batchMessages EXCEPT ![w] = <<>>]
    /\ pc' = [pc EXCEPT ![w] = "loop"]
    /\ UNCHANGED <<ingestVars, rows, queueVars, ledgerVars, envVars, ctxDone, batchTimer, passVars>>

\* The consumer group restarts from the committed offset (rebalance, session
\* timeout, restart of the reader): every uncommitted message is delivered again.
Redeliver ==
    /\ fetchPos > committed
    /\ redelivered < MaxRedeliver
    /\ redelivered' = redelivered + 1
    /\ fetchPos' = committed
    /\ UNCHANGED <<ingestVars, rows, queue, committed, ledgerVars, faults, ctxDone, pc, batchMessages,
                   batchTimer, passVars>>

\* main (engine): the shutdown signal cancels the root context
Cancel ==
    /\ ~ctxDone
    /\ ctxDone' = TRUE
    /\ UNCHANGED <<ingestVars, rows, queueVars, ledgerVars, envVars, pc, batchMessages, batchTimer,
                   passVars>>

\* ------------------------------------------------------------------ ingestion: receipt service
Contents == 1..NumHash

\* SHA-256 of the content, as a lower-case hex string (here: a hash number)
Sha256(content) == (content % NumHash) + 1

\* What Service.SubmitLog answers to an input: content = 0 is the empty
\* log_content, clientHash = 0 no client hash
SubmitLogError(content, clientHash) ==
    IF content = 0 THEN "log_content cannot be empty"
    ELSE IF clientHash # 0 /\ clientHash # Sha256(content) THEN "hash does not match"
    ELSE "nil"

\* Service.SubmitLog without the comparison of the client hash
ServiceSubmitLogNoHashCheck(content, clientHash, org) ==
    /\ nextID <= NumSubmit
    /\ content # 0
    /\ inputs' = [inputs EXCEPT ![nextID] =
                     [LogHash |-> Sha256(content), SourceOrgID |-> org]]
    /\ sub' = [sub EXCEPT ![nextID] = "append"]
    /\ nextID' = nextID + 1
    /\ receipt' = [content |-> content, clientHash |-> clientHash, err |-> "nil",
                   RequestID |-> nextID, ServerLogHash |-> Sha256(content)]
    /\ UNCHANGED <<rows, queueVars, ledgerVars, envVars, workerVars, producerVars, subBatch, buffer,
                   flushChan, chanClosed, bpCtxDone, timerPc, timerBatch, fwPc, fwBatch,
                   fwFinal, closePc>>

\* Service.SubmitLog accepts the input: it returns the receipt with a fresh
\* request id and starts the goroutine that hands the record to the batcher.
ServiceSubmitLog(content, clientHash, org) ==
    /\ nextID <= NumSubmit
    /\ SubmitLogError(content, clientHash) = "nil"
    /\ inputs' = [inputs EXCEPT ![nextID] =
                     [LogHash |-> Sha256(content), SourceOrgID |-> org]]
    /\ sub' = [sub EXCEPT ![nextID] = "append"]
    /\ nextID' = nextID + 1
    /\ receipt' = [content |-> content, clientHash |-> clientHash, err |-> "nil",
                   RequestID |-> nextID, ServerLogHash |-> Sha256(content)]
    /\ UNCHANGED <<rows, queueVars, ledgerVars, envVars, workerVars, producerVars, subBatch, buffer,
                   flushChan, chanClosed, bpCtxDone, timerPc, timerBatch, fwPc, fwBatch,
                   fwFinal, closePc>>

\* Service.SubmitLog returns an error: no receipt, no request id drawn, no
\* goroutine started
ServiceSubmitLogReject(content, clientHash, org) ==
    /\ SubmitLogError(content, clientHash) # "nil"
    /\ receipt' = [content |-> content, clientHash |-> clientHash,
                   err |-> SubmitLogError(content, clientHash),
                   RequestID |-> 0, ServerLogHash |-> 0]
    /\ UNCHANGED <<rows, queueVars, ledgerVars, envVars, workerVars, producerVars, nextID, inputs,
                   sub, subBatch, buffer, flushChan, chanClosed, bpCtxDone, timerPc, timerBatch,
                   fwPc, fwBatch, fwFinal, closePc>>

\* ------------------------------------------------------------------ ingestion: batcher
\* BatchProcessor.SubmitLog with shouldFlush computed as len(buffer) > batchSize
SubmitLogAppendLate(g) ==
    /\ sub[g] = "append"
    /\ buffer' = Append(buffer, g)
    /\ sub' = [sub EXCEPT ![g] = IF Len(buffer) + 1 > IngestBatchSize THEN "drain" ELSE "done"]
    /\ UNCHANGED <<rows, queueVars, ledgerVars, envVars, workerVars, producerVars, receipt, nextID, inputs, subBatch,
                   flushChan, chanClosed, bpCtxDone, timerPc, timerBatch, fwPc, fwBatch,
                   fwFinal, closePc>>

\* BatchProcessor.SubmitLog, under the mutex: append the entry, compute shouldFlush
SubmitLogAppend(g) ==
    /\ sub[g] = "append"
    /\ buffer' = Append(buffer, g)
    /\ sub' = [sub EXCEPT ![g] = IF Len(buffer) + 1 >= IngestBatchSize THEN "drain" ELSE "done"]
    /\ UNCHANGED <<rows, queueVars, ledgerVars, envVars, workerVars, producerVars, receipt, nextID, inputs, subBatch,
                   flushChan, chanClosed, bpCtxDone, timerPc, timerBatch, fwPc, fwBatch,
                   fwFinal, closePc>>

\* BatchProcessor.SubmitLog, shouldFlush: the operand of the send,
\* getAndResetBuffer(), is evaluated before the select chooses a case
SubmitLogDrain(g) ==
    /\ sub[g] = "drain"
    /\ subBatch' = [subBatch EXCEPT ![g] = buffer]
    /\ buffer' = <<>>
    /\ sub' = [sub EXCEPT ![g] = "send"]
    /\ UNCHANGED <<rows, queueVars, ledgerVars, envVars, workerVars, producerVars, receipt, nextID, inputs,
                   flushChan, chanClosed, bpCtxDone, timerPc, timerBatch, fwPc, fwBatch,
                   fwFinal, closePc>>

\* BatchProcessor.SubmitLog, the select: send the drained batch if the channel
\* has room, else the default case (which only logs); a send on the closed
\* channel panics.
SubmitLogSend(g) ==
    /\ sub[g] = "send"
    /\ IF chanClosed
       THEN /\ sub' = [sub EXCEPT ![g] = "panic"]
            /\ UNCHANGED <<flushChan, subBatch>>
       ELSE /\ sub' = [sub EXCEPT ![g] = "done"]
            /\ subBatch' = [subBatch EXCEPT ![g] = <<>>]
            /\ flushChan' = IF Len(flushChan) < FlushChannelBuffer
                            THEN Append(flushChan, subBatch[g])
                            ELSE flushChan
    /\ UNCHANGED <<rows, queueVars, ledgerVars, envVars, workerVars, producerVars, receipt, nextID, inputs, buffer,
                   chanClosed, bpCtxDone, timerPc, timerBatch, fwPc, fwBatch, fwFinal, closePc>>

\* flushIfNeeded copying the buffer out without resetting it
TimerTickNoReset ==
    /\ timerPc = "wait"
    /\ buffer # <<>>
    /\ timerBatch' = buffer
    /\ buffer' = buffer
    /\ timerPc' = "send"
    /\ UNCHANGED <<rows, queueVars, ledgerVars, envVars, workerVars, producerVars, receipt, nextID, inputs, sub,
                   subBatch, flushChan, chanClosed, bpCtxDone, fwPc, fwBatch, fwFinal, closePc>>

\* batchTimer, case <-bp.ticker.C: flushIfNeeded copies a non-empty buffer out
\* under the mutex (an empty buffer is left alone)
TimerTick ==
    /\ timerPc = "wait"
    /\ buffer # <<>>
    /\ timerBatch' = buffer
    /\ buffer' = <<>>
    /\ timerPc' = "send"
    /\ UNCHANGED <<rows, queueVars, ledgerVars, envVars, workerVars, producerVars, receipt, nextID, inputs, sub,
                   subBatch, flushChan, chanClosed, bpCtxDone, fwPc, fwBatch, fwFinal, closePc>>

\* flushIfNeeded, the select: send the batch, or put it back at the head of the buffer
TimerSend ==
    /\ timerPc = "send"
    /\ IF Len(flushChan) < FlushChannelBuffer
       THEN flushChan' = Append(flushChan, timerBatch) /\ buffer' = buffer
       ELSE buffer' = timerBatch \o buffer /\ flushChan' = flushChan
    /\ timerBatch' = <<>>
    /\ timerPc' = "wait"
    /\ UNCHANGED <<rows, queueVars, ledgerVars, envVars, workerVars, producerVars, receipt, nextID, inputs, sub,
                   subBatch, chanClosed, bpCtxDone, fwPc, fwBatch, fwFinal, closePc>>

\* batchTimer, case <-bp.ctx.Done(): return
TimerStop ==
    /\ timerPc = "wait"
    /\ bpCtxDone
    /\ timerPc' = "done"
    /\ UNCHANGED <<rows, queueVars, ledgerVars, envVars, workerVars, producerVars, receipt, nextID, inputs, sub,
                   subBatch, buffer, flushChan, chanClosed, bpCtxDone, timerBatch, fwPc,
                   fwBatch, fwFinal, closePc>>

\* batchProcessor, case batch := <-bp.flushChan
FlushReceive ==
    /\ fwPc = "select"
    /\ flushChan # <<>>
    /\ flushChan' = Tail(flushChan)
    /\ IF Len(Head(flushChan)) > 0
       THEN fwBatch' = Head(flushChan) /\ fwPc' = "insert"
       ELSE fwBatch' = fwBatch /\ fwPc' = fwPc
    /\ UNCHANGED <<rows, queueVars, ledgerVars, envVars, workerVars, producerVars, receipt, nextID, inputs, sub,
                   subBatch, buffer, chanClosed, bpCtxDone, timerPc, timerBatch, fwFinal,
                   closePc>>

\* batchProcessor, case <-bp.ctx.Done(): process the remaining buffer and return
FlushShutdown ==
    /\ fwPc = "select"
    /\ bpCtxDone
    /\ buffer' = <<>>
    /\ IF Len(buffer) > 0
       THEN fwBatch' = buffer /\ fwPc' = "insert" /\ fwFinal' = TRUE
       ELSE fwBatch' = fwBatch /\ fwPc' = "done" /\ fwFinal' = fwFinal
    /\ UNCHANGED <<rows, queueVars, ledgerVars, envVars, workerVars, producerVars, receipt, nextID, inputs, sub,
                   subBatch, flushChan, chanClosed, bpCtxDone, timerPc, timerBatch, closePc>>

\* The rows processBatch builds for a batch: request_id -> RECEIVED row
LogStatuses(batch) ==
    [r \in Range(batch) |-> NewRow(inputs[r].LogHash, inputs[r].SourceOrgID)]

\* The queue messages processBatch builds for a batch, in batch order
KafkaMessages(batch) ==
    [i \in DOMAIN batch |->
        LogMessage(batch[i], inputs[batch[i]].LogHash, inputs[batch[i]].SourceOrgID)]

\* Where processBatch returns to
AfterProcessBatch == IF fwFinal THEN "done" ELSE "select"

\* processBatch going on to publish whatever the insert returned
ProcessBatchInsertIgnoreError ==
    /\ fwPc = "insert"
    /\ \/ /\ ~InsertConflict(rows, LogStatuses(fwBatch))
          /\ Inject(0)
          /\ rows' = InsertLogStatusBatch(rows, LogStatuses(fwBatch))
       \/ /\ Inject(1)
          /\ rows' = rows
    /\ fwPc' = "publish"
    /\ fwBatch' = fwBatch
    /\ UNCHANGED <<queueVars, ledgerVars, redelivered, workerVars, producerVars, receipt, nextID, inputs, sub,
                   subBatch, buffer, flushChan, chanClosed, bpCtxDone, timerPc, timerBatch,
                   fwFinal, closePc>>

\* processBatch putting the batch back in front of the buffer when the insert
\* fails
ProcessBatchInsertRequeue ==
    /\ fwPc = "insert"
    /\ \/ /\ ~InsertConflict(rows, LogStatuses(fwBatch))
          /\ Inject(0)
          /\ rows' = InsertLogStatusBatch(rows, LogStatuses(fwBatch))
          /\ fwPc' = "publish"
          /\ fwBatch' = fwBatch
          /\ buffer' = buffer
       \/ /\ Inject(1)
          /\ rows' = rows
          /\ fwPc' = AfterProcessBatch
          /\ fwBatch' = <<>>
          /\ buffer' = fwBatch \o buffer
    /\ UNCHANGED <<queueVars, ledgerVars, redelivered, workerVars, producerVars, receipt, nextID, inputs, sub,
                   subBatch, flushChan, chanClosed, bpCtxDone, timerPc, timerBatch,
                   fwFinal, closePc>>

\* processBatch, first half: InsertLogStatusBatch; on an error the batch is
\* logged and dropped
ProcessBatchInsert ==
    /\ fwPc = "insert"
    /\ \/ /\ ~InsertConflict(rows, LogStatuses(fwBatch))
          /\ Inject(0)
          /\ rows' = InsertLogStatusBatch(rows, LogStatuses(fwBatch))
          /\ fwPc' = "publish"
          /\ fwBatch' = fwBatch
       \/ /\ Inject(1)
          /\ rows' = rows
          /\ fwPc' = AfterProcessBatch
          /\ fwBatch' = <<>>
    /\ UNCHANGED <<queueVars, ledgerVars, redelivered, workerVars, producerVars, receipt, nextID, inputs, sub,
                   subBatch, buffer, flushChan, chanClosed, bpCtxDone, timerPc, timerBatch,
                   fwFinal, closePc>>

\* processBatch putting the batch back in front of the buffer when the publish
\* returns an error
ProcessBatchPublishRequeue ==
    /\ fwPc = "publish"
    /\ \E out \in PublishBatch(writer, KafkaMessages(fwBatch)) :
          /\ Inject(IF out.failed THEN 1 ELSE 0)
          /\ queue' = queue \o out.written
          /\ kafkaErr' = out.err
          /\ buffer' = IF out.err = "nil" THEN buffer ELSE fwBatch \o buffer
    /\ fwPc' = AfterProcessBatch
    /\ fwBatch' = <<>>
    /\ UNCHANGED <<rows, committed, fetchPos, ledgerVars, redelivered, workerVars, writer, receipt, nextID,
                   inputs, sub, subBatch, flushChan, chanClosed, bpCtxDone, timerPc,
                   timerBatch, fwFinal, closePc>>

\* processBatch, second half: PublishBatch; an error is logged
ProcessBatchPublish ==
    /\ fwPc = "publish"
    /\ \E out \in PublishBatch(writer, KafkaMessages(fwBatch)) :
          /\ Inject(IF out.failed THEN 1 ELSE 0)
          /\ queue' = queue \o out.written
          /\ kafkaErr' = out.err
    /\ fwPc' = AfterProcessBatch
    /\ fwBatch' = <<>>
    /\ UNCHANGED <<rows, committed, fetchPos, ledgerVars, redelivered, workerVars, writer, receipt, nextID,
                   inputs, sub, subBatch, buffer, flushChan, chanClosed, bpCtxDone, timerPc,
                   timerBatch, fwFinal, closePc>>

\* Close: bp.cancel()
CloseCancel ==
    /\ closePc = "open"
    /\ bpCtxDone' = TRUE
    /\ closePc' = "wait"
    /\ UNCHANGED <<rows, queueVars, ledgerVars, envVars, workerVars, producerVars, receipt, nextID, inputs, sub,
                   subBatch, buffer, flushChan, chanClosed, timerPc, timerBatch, fwPc,
                   fwBatch, fwFinal>>

\* Close: bp.wg.Wait() returned, close(bp.flushChan)
CloseChannel ==
    /\ closePc = "wait"
    /\ timerPc = "done"
    /\ fwPc = "done"
    /\ chanClosed' = TRUE
    /\ closePc' = "closed"
    /\ UNCHANGED <<rows, queueVars, ledgerVars, envVars, workerVars, producerVars, receipt, nextID, inputs, sub,
                   subBatch, buffer, flushChan, bpCtxDone, timerPc, timerBatch, fwPc,
                   fwBatch, fwFinal>>

\* The ingestion service starts on an empty table and an empty topic.
InitIngest ==
    /\ rows = [r \in 1..NumSubmit |-> NoRow]
    /\ queue = <<>>
    /\ committed = 0
    /\ fetchPos = 0
    /\ LedgerInit
    /\ faults = 0
    /\ redelivered = 0
    /\ WorkerInit
    /\ IngestInit

NextIngest ==
    \/ \E c \in Contents : ServiceSubmitLog(c, 0, "org")
    \/ \E g \in 1..NumSubmit : SubmitLogAppend(g)
    \/ \E g \in 1..NumSubmit : SubmitLogDrain(g)
    \/ \E g \in 1..NumSubmit : SubmitLogSend(g)
    \/ TimerTick
    \/ TimerSend
    \/ TimerStop
    \/ FlushReceive
    \/ FlushShutdown
    \/ ProcessBatchInsert
    \/ ProcessBatchPublish
    \/ CloseCancel
    \/ CloseChannel

SpecIngest == InitIngest /\ [][NextIngest]_vars

\* ------------------------------------------------------------------ ingestion: every producer configuration
\* The ingestion service started with any producer configuration
InitPublish ==
    /\ rows = [r \in 1..NumSubmit |-> NoRow]
    /\ queue = <<>>
    /\ committed = 0
    /\ fetchPos = 0
    /\ LedgerInit
    /\ faults = 0
    /\ redelivered = 0
    /\ WorkerInit
    /\ BatcherInit
    /\ \E cfg \in KafkaProducerConfigs : ProducerInit(cfg)

\* The service while it is not shut down
NextPublish ==
    \/ \E c \in Contents : ServiceSubmitLog(c, 0, "org")
    \/ \E g \in 1..NumSubmit : SubmitLogAppend(g)
    \/ \E g \in 1..NumSubmit : SubmitLogDrain(g)
    \/ \E g \in 1..NumSubmit : SubmitLogSend(g)
    \/ TimerTick
    \/ TimerSend
    \/ FlushReceive
    \/ ProcessBatchInsert
    \/ ProcessBatchPublish

SpecPublish == InitPublish /\ [][NextPublish]_vars

\* ------------------------------------------------------------------ ingestion: every submission
\* The service while it is not shut down, called with inputs of every kind
NextSubmit ==
    \/ \E c \in {0} \cup Contents, ch \in {0} \cup Hashes :
          \/ ServiceSubmitLog(c, ch, "org")
          \/ ServiceSubmitLogReject(c, ch, "org")
    \/ \E g \in 1..NumSubmit : SubmitLogAppend(g)
    \/ \E g \in 1..NumSubmit : SubmitLogDrain(g)
    \/ \E g \in 1..NumSubmit : SubmitLogSend(g)
    \/ TimerTick
    \/ TimerSend
    \/ FlushReceive
    \/ ProcessBatchInsert
    \/ ProcessBatchPublish

SpecSubmit == InitIngest /\ [][NextSubmit]_vars

\* ------------------------------------------------------------------ engine: specification
Next ==
    \/ \E w \in Loops : Consume(w)
    \/ \E w \in Loops : BatchTimeout(w)
    \/ \E w \in Loops : ContextDone(w)
    \/ \E w \in Loops : HandleBatchClaim(w)
    \/ \E w \in Loops : SubmitLogsBatch(w)
    \/ \E w \in Loops : HandleSubmitError(w)
    \/ \E w \in Loops : HandleMarkCompleted(w)
    \/ \E w \in Loops : HandleMarkFailed(w)
    \/ \E w \in Loops : AckBatch(w)
    \/ \E w \in Loops : NackBatch(w)
    \/ Redeliver
    \/ Cancel

Spec == Init /\ [][Next]_vars

\* ------------------------------------------------------------------ engine: fair scheduling
\* One step of worker loop w (Worker.Run keeps every started loop running).
WorkerStep(w) ==
    \/ Consume(w)
    \/ BatchTimeout(w)
    \/ HandleBatchClaim(w)
    \/ SubmitLogsBatch(w)
    \/ HandleSubmitError(w)
    \/ HandleMarkCompleted(w)
    \/ HandleMarkFailed(w)
    \/ AckBatch(w)
    \/ NackBatch(w)

\* The reader is restarted from the committed offset as often as needed.
Restart ==
    /\ fetchPos > committed
    /\ fetchPos' = committed
    /\ UNCHANGED <<ingestVars, rows, queue, committed, ledgerVars, envVars, ctxDone, pc,
                   batchMessages, batchTimer, passVars>>

NextLive ==
    \/ \E w \in Loops : WorkerStep(w)
    \/ Restart

\* The engine without a shutdown: every loop keeps taking steps, and uncommitted
\* messages are delivered again whenever some are left.
SpecLive ==
    /\ Init
    /\ [][NextLive]_vars
    /\ \A w \in Loops : WF_vars(WorkerStep(w))
    /\ WF_vars(Restart)

\* ------------------------------------------------------------------ engine: ledger out of reach
\* handleBatch, step 2, against a ledger that cannot be reached: the call fails
\* as a whole, as often as it is made.
SubmitLogsBatchUnreachable(w) ==
    /\ pc[w] = "submit"
    /\ pc' = [pc EXCEPT ![w] = "retry"]
    /\ callsFailed' = [r \in RID |-> IF r \in validTasks[w] THEN callsFailed[r] + 1
                                                       ELSE callsFailed[r]]
    /\ UNCHANGED <<ingestVars, rows, queueVars, chain, txCount, callsCommitted, envVars, ctxDone,
                   batchMessages, batchTimer, passVars>>

NextRetry ==
    \/ WorkerStep(1)
    \/ SubmitLogsBatchUnreachable(1)
    \/ Restart

\* The engine run with one worker loop (worker.concurrency = 1) and without a
\* shutdown, the ledger failing at transport level any number of times and
\* uncommitted messages delivered again.
SpecRetry == Init /\ [][NextRetry]_vars

\* The same run with the loop scheduled until it blocks and the reader
\* restarted from the committed offset whenever uncommitted messages are left.
SpecRetryLive ==
    /\ Init
    /\ [][NextRetry]_vars
    /\ WF_vars(WorkerStep(1))
    /\ WF_vars(Restart)

\* ------------------------------------------------------------------ engine: ledger client with a short result vector
\* The sequence s without the elements at the positions in d
RECURSIVE Without(_, _)
Without(s, d) ==
    IF s = <<>> THEN <<>>
    ELSE (IF 1 \in d THEN <<>> ELSE <<Head(s)>>)
         \o Without(Tail(s), {i - 1 : i \in d \ {1}})

\* handleBatch, step 2, against a BlockchainClient whose SubmitLogsBatch returns
\* no error and a result vector that lacks the result of at least one entry
\* (the interface promises no length; the transaction itself is committed).
SubmitLogsBatchShort(w) ==
    /\ pc[w] = "submit"
    /\ \E d \in (SUBSET DOMAIN validEntries[w]) \ {{}} :
          LET out == submitLogsBatch(validEntries[w], chain,
                                     [i \in DOMAIN validEntries[w] |-> "ok"]) IN
          /\ chain' = out.state
          /\ txCount' = txCount + 1
          /\ callsCommitted' = [r \in RID |-> IF r \in validTasks[w]
                                              THEN callsCommitted[r] + 1
                                              ELSE callsCommitted[r]]
          /\ callsFailed' = callsFailed
          /\ results' = [results EXCEPT ![w] = Without(out.results, d)]
          /\ batchProof' = [batchProof EXCEPT ![w] =
                              [TransactionID |-> txCount + 1, BlockHeight |-> txCount + 1]]
          /\ pc' = [pc EXCEPT ![w] = "markCompleted"]
    /\ UNCHANGED <<ingestVars, rows, queueVars, envVars, ctxDone, batchMessages, batchTimer,
                   tasksFromDB, validTasks, validEntries>>

NextShort ==
    \/ WorkerStep(1)
    \/ SubmitLogsBatchShort(1)
    \/ Restart

\* The engine run with one worker loop against a ledger client that may leave
\* results out of the vector it returns.
SpecShort == Init /\ [][NextShort]_vars

\* ------------------------------------------------------------------ engine: deadline of the ledger call
\* handleBatch derives invokeCtx from ctx with blockchainTimeout and hands it to
\* Client.SubmitLogsBatch, which derives one more context from it, drops that
\* context ("_, cancel :=") and calls sdkClient.InvokeContract without any
\* context: when the deadline passes the call stays in flight.
InvokeDeadline(w) ==
    /\ pc[w] = "submit"
    /\ pc' = [pc EXCEPT ![w] = "overdue"]
    /\ UNCHANGED <<ingestVars, rows, queueVars, ledgerVars, envVars, ctxDone, batchMessages,
                   batchTimer, passVars>>

NextTimeout ==
    \/ WorkerStep(1)
    \/ InvokeDeadline(1)
    \/ Restart

\* The engine run with one worker loop, the ledger taking any time to answer.
SpecTimeout == Init /\ [][NextTimeout]_vars

\* ------------------------------------------------------------------ engine: shutdown of one loop
NextStop ==
    \/ WorkerStep(1)
    \/ ContextDone(1)
    \/ Cancel
    \/ Restart

\* The engine run with one worker loop until the root context is cancelled
SpecStop == Init /\ [][NextStop]_vars

\* ------------------------------------------------------------------ engine: shutdown of the worker pool
NextShutdown ==
    \/ \E w \in Loops : WorkerStep(w)
    \/ \E w \in Loops : ContextDone(w)
    \/ Cancel

\* Worker.Run with all its loops, up to and after the cancellation of the root
\* context: every loop goroutine keeps being scheduled, every call it makes
\* returns; the shutdown signal may come at any time or never.
SpecShutdown ==
    /\ Init
    /\ [][NextShutdown]_vars
    /\ \A w \in Loops : WF_vars(WorkerStep(w)) /\ WF_vars(ContextDone(w))

\* ------------------------------------------------------------------ engine: malformed payload
\* KafkaConsumer.Consume on a payload that does not deserialize, leaving the
\* offset uncommitted
ConsumeMalformedNoCommit(w) ==
    /\ pc[w] = "loop"
    /\ ~ctxDone
    /\ fetchPos < Len(queue)
    /\ ~Deserializes(queue[fetchPos + 1])
    /\ fetchPos' = fetchPos + 1
    /\ UNCHANGED <<ingestVars, rows, queue, committed, ledgerVars, envVars, ctxDone, pc,
                   batchMessages, batchTimer, passVars>>

\* KafkaConsumer.Consume on a payload that does not deserialize: the offset is
\* committed and an error returned without a message; processMessagesInBatch
\* logs the error, sleeps consumerRetryDelay and continues its loop.
ConsumeMalformed(w) ==
    /\ pc[w] = "loop"
    /\ ~ctxDone
    /\ fetchPos < Len(queue)
    /\ ~Deserializes(queue[fetchPos + 1])
    /\ fetchPos' = fetchPos + 1
    /\ committed' = Max(committed, fetchPos + 1)
    /\ UNCHANGED <<ingestVars, rows, queue, ledgerVars, envVars, ctxDone, pc,
                   batchMessages, batchTimer, passVars>>

\* The engine starts on a topic that holds, besides the message of each
\* request, one payload that is not a LogMessage.
InitMalformed ==
    /\ \E h \in [RID -> Hashes], k \in 1..(NumReq + 1) :
          /\ h[1] = 1
          /\ rows = [r \in RID |-> NewRow(h[r], "org")]
          /\ queue = [i \in 1..(NumReq + 1) |->
                         IF i < k THEN LogMessage(i, h[i], "org")
                         ELSE IF i = k THEN Garbage
                         ELSE LogMessage(i - 1, h[i - 1], "org")]
    /\ committed = 0
    /\ fetchPos = 0
    /\ LedgerInit
    /\ faults = 0
    /\ redelivered = 0
    /\ WorkerInit
    /\ IngestInit

NextMalformed ==
    \/ WorkerStep(1)
    \/ ConsumeMalformed(1)
    \/ Restart

\* The engine run with one worker loop on such a topic
SpecMalformed == InitMalformed /\ [][NextMalformed]_vars

\* ------------------------------------------------------------------ ingestion: fair scheduling
\* One step of the goroutine started by Service.SubmitLog for request g
SubmitterStep(g) ==
    \/ SubmitLogAppend(g)
    \/ SubmitLogDrain(g)
    \/ SubmitLogSend(g)

\* One step of the batchTimer goroutine
TimerStep ==
    \/ TimerTick
    \/ TimerSend
    \/ TimerStop

\* One step of the batchProcessor goroutine (the flush worker)
FlushWorkerStep ==
    \/ FlushReceive
    \/ FlushShutdown
    \/ ProcessBatchInsert
    \/ ProcessBatchPublish

\* The ingestion service with every started goroutine scheduled until it returns
SpecIngestLive ==
    /\ InitIngest
    /\ [][NextIngest]_vars
    /\ \A g \in 1..NumSubmit : WF_vars(SubmitterStep(g))
    /\ WF_vars(TimerStep)
    /\ WF_vars(FlushWorkerStep)
    /\ WF_vars(CloseChannel)

\* ================================================================== claims
\* C1: whenever a worker loop positively acknowledges the messages of its batch
\* (the step of AckBatch), the row of every message of the batch is COMPLETED or
\* FAILED at that moment.
C1_AckOnlyTerminal ==
    [][\A w \in Loops :
          (pc[w] = "ack" /\ pc'[w] = "loop") =>
              \A r \in RequestIDs(batchMessages[w]) : rows[r].status \in Terminal]_vars

\* A loop about to acknowledge positively a message whose row is still PROCESSING
C1_AckedNonTerminal ==
    \E w \in Loops :
        /\ pc[w] = "ack"
        /\ \E r \in RequestIDs(batchMessages[w]) : rows[r].status = "PROCESSING"

\* The edges of the status DAG
AllowedEdges ==
    {<<"RECEIVED", "PROCESSING">>, <<"PROCESSING", "COMPLETED">>,
     <<"PROCESSING", "FAILED">>, <<"RECEIVED", "FAILED">>}

\* C2: in every step the status of a row either stays or changes along
\* RECEIVED->PROCESSING, PROCESSING->COMPLETED, PROCESSING->FAILED or
\* RECEIVED->FAILED; a COMPLETED or FAILED row never changes status again.
C2_StatusMonotonic ==
    [][\A r \in DOMAIN rows :
          \/ rows[r] = NoRow
          \/ rows'[r].status = rows[r].status
          \/ <<rows[r].status, rows'[r].status>> \in AllowedEdges]_vars

\* A loop is about to write the verdict of its own ledger call on a row that
\* another loop, handling a redelivery of the same message, already made terminal.
C2_Witness ==
    \E w \in Loops : \E r \in validTasks[w] :
        /\ pc[w] = "markFailed"
        /\ rows[r].status \in Terminal
        /\ VerdictOf(rows, results[w], r) # "Success"
        /\ redelivered > 0

\* C3: retry_count <= max_task_retries for every row in every reachable state.
C3_RetryCap ==
    \A r \in DOMAIN rows : rows[r] # NoRow => rows[r].retry_count <= MaxTaskRetries

\* A row that hit the cap at claim time, after max_task_retries claims
C3_Witness ==
    \E r \in DOMAIN rows :
        /\ rows[r] # NoRow
        /\ rows[r].retry_count = MaxTaskRetries
        /\ rows[r].status = "FAILED"
        /\ rows[r].error_message = "max retries exceeded"

\* C4: every message present on the queue has a request_id whose row exists.
C4_QueuedHasRow ==
    \A i \in DOMAIN queue : rows[queue[i].RequestID] # NoRow

\* A flush task was published after an earlier task was dropped by a failed insert
C4_Witness ==
    /\ queue # <<>>
    /\ faults > 0
    /\ \E g \in 1..NumSubmit : sub[g] = "done" /\ rows[g] = NoRow /\ g < queue[1].RequestID

\* C5: for every submit that returned a receipt, a row with the receipt's
\* request_id eventually exists (the table holds at most one row per
\* request_id by construction).  Stated for the runs the claim is surest of:
\* no call of the store or of the queue fails and the service is not shut down.
C5_AcceptedEventuallyStored ==
    \A g \in 1..NumSubmit : (g < nextID) ~> (rows[g] # NoRow \/ faults > 0 \/ bpCtxDone)

\* C6: every row eventually reaches COMPLETED or FAILED, the loops being
\* scheduled fairly and uncommitted messages delivered again.
C6_EventuallyTerminal ==
    \A r \in RID : <>(rows[r].status \in Terminal)

\* C7: a row has tx_hash, block_height and log_hash_on_chain set if and only if
\* it is COMPLETED, and then log_hash_on_chain equals its log_hash.
C7_LedgerColumns ==
    \A r \in DOMAIN rows :
        rows[r] # NoRow =>
            IF rows[r].status = "COMPLETED"
            THEN /\ rows[r].tx_hash # 0
                 /\ rows[r].block_height # 0
                 /\ rows[r].log_hash_on_chain # 0
                 /\ rows[r].log_hash_on_chain = rows[r].log_hash
            ELSE /\ rows[r].tx_hash = 0
                 /\ rows[r].block_height = 0
                 /\ rows[r].log_hash_on_chain = 0

\* One ledger call with two different hashes, the second entry alone a Success
C7_Witness ==
    \E r1, r2 \in RID :
        /\ rows[r1].status = "COMPLETED"
        /\ rows[r2].status = "FAILED"
        /\ rows[r2].error_message = "contract failed"
        /\ rows[r1].log_hash # rows[r2].log_hash
        /\ \E w \in Loops : pc[w] = "ack" /\ RequestIDs(batchMessages[w]) = {r1, r2}

\* C8: when the ledger call failed as a whole, the step that handles the error
\* changes no status, touches rows only by recording the error on the requests
\* claimed in PROCESSING (on all of them when the store accepts the update),
\* and leads to the negative acknowledgement, which commits no offset.
C8_LedgerErrorNacks ==
    [][\A w \in Loops :
          /\ (pc[w] = "retry" /\ pc'[w] # "retry") =>
                /\ pc'[w] = "nack"
                /\ \A r \in RID :
                      /\ rows'[r].status = rows[r].status
                      /\ rows'[r] # rows[r] => r \in validTasks[w]
                /\ (faults' = faults /\ ~ctxDone) =>
                      \A r \in validTasks[w] :
                          rows[r].status = "PROCESSING" =>
                              rows'[r].error_message = "ledger error"
                /\ batchMessages'[w] = batchMessages[w]
          /\ (pc[w] = "nack" /\ pc'[w] # "nack") =>
                /\ committed' = committed
                /\ batchMessages'[w] = <<>>]_vars

\* The error of the ledger call is recorded on a PROCESSING row whose batch is
\* about to be negatively acknowledged
C8_Witness ==
    \E w \in Loops :
        /\ pc[w] = "nack"
        /\ \E r \in RequestIDs(batchMessages[w]) :
              rows[r].status = "PROCESSING" /\ rows[r].error_message = "ledger error"

\* The verdict the ledger returned for the entry built for request r
OwnVerdict(w, r) ==
    results[w][CHOOSE i \in DOMAIN validEntries[w] : validEntries[w][i].RequestID = r].Status

\* C9: when the ledger call succeeded, at the end of the pass every submitted
\* request whose entry got Success is COMPLETED with the transaction id and block
\* height of the call, every other submitted request is FAILED, and the batch
\* goes on to be positively acknowledged.
C9_VerdictsApplied ==
    [][\A w \in Loops :
          (pc[w] = "markFailed" /\ pc'[w] # "markFailed") =>
              /\ pc'[w] = "ack"
              /\ \A r \in validTasks[w] :
                    IF OwnVerdict(w, r) = "Success"
                    THEN /\ rows'[r].status = "COMPLETED"
                         /\ rows'[r].tx_hash = batchProof[w].TransactionID
                         /\ rows'[r].block_height = batchProof[w].BlockHeight
                    ELSE rows'[r].status = "FAILED"]_vars

\* C10: when one ledger call carries two requests with the same log_hash and
\* returns Success for the first entry and SkippedDuplicate for the second, and
\* every store update of the pass is accepted, the pass ends with the first
\* request's row COMPLETED and the second request's row FAILED.
C10_DuplicateInBatch ==
    [][\A w \in Loops :
          (/\ pc[w] = "markFailed" /\ pc'[w] = "ack"
           /\ faults' = 0 /\ ~ctxDone /\ redelivered = 0
           /\ Len(validEntries[w]) = 2
           /\ validEntries[w][1].LogHash = validEntries[w][2].LogHash
           /\ results[w][1].Status = "Success"
           /\ results[w][2].Status = "SkippedDuplicate") =>
              /\ rows'[validEntries[w][1].RequestID].status = "COMPLETED"
              /\ rows'[validEntries[w][2].RequestID].status = "FAILED"]_vars

\* C11 as claimed: with max_task_retries = 2, a request whose first two ledger
\* submissions failed as a whole is submitted once more, so the retry cap does
\* not make it FAILED.
C11_ThirdSubmission ==
    \A r \in RID :
        (callsFailed[r] = 2 /\ callsCommitted[r] = 0) => rows[r].status # "FAILED"

\* C11: a request whose first max_task_retries ledger submissions failed as a
\* whole has retry_count = max_task_retries, is never COMPLETED and is carried
\* by no further ledger call; retry_count only moves up, one claim at a time.
C11_RetriesExhausted ==
    [][\A r \in RID :
          /\ rows'[r].retry_count \in {rows[r].retry_count, rows[r].retry_count + 1}
          /\ (callsFailed[r] >= MaxTaskRetries) =>
                /\ rows[r].retry_count = MaxTaskRetries
                /\ rows[r].status # "COMPLETED"
                /\ callsFailed'[r] = callsFailed[r]
                /\ callsCommitted'[r] = 0]_vars

\* The request failed max_task_retries ledger submissions and the next claim
\* made it FAILED
C11_Witness ==
    \E r \in RID :
        /\ callsFailed[r] = MaxTaskRetries
        /\ rows[r].status = "FAILED"
        /\ rows[r].error_message = "max retries exceeded"
        /\ rows[r].retry_count = MaxTaskRetries

\* The rows claim_batch would force to FAILED, or finds FAILED already
AtCap(r) ==
    \/ rows[r].status = "FAILED"
    \/ /\ rows[r].status \in {"RECEIVED", "PROCESSING"}
       /\ rows[r].retry_count >= MaxTaskRetries

\* C12: a claim that finds a row in RECEIVED or PROCESSING with retry_count at
\* (or above) max_task_retries makes it FAILED with "max retries exceeded",
\* leaves its retry_count, and keeps the request out of the ledger submission
\* of the pass; a row that is FAILED is kept out of every pass that claims it
\* later.
C12_CapAtClaim ==
    [][\A w \in Loops :
          (pc[w] = "claim" /\ pc'[w] \in {"ack", "submit"}) =>
              \A r \in RequestIDs(batchMessages[w]) :
                  AtCap(r) =>
                      /\ rows'[r].status = "FAILED"
                      /\ rows'[r].retry_count = rows[r].retry_count
                      /\ rows[r].status # "FAILED" =>
                            rows'[r].error_message = "max retries exceeded"
                      /\ r \notin validTasks'[w]
                      /\ \A i \in DOMAIN validEntries'[w] :
                            validEntries'[w][i].RequestID # r]_vars

\* A pass about to call the ledger for one request of its batch, the other
\* request of the batch having been made FAILED by the claim of this pass
C12_Witness ==
    \E w \in Loops : \E r \in RequestIDs(batchMessages[w]) :
        /\ pc[w] = "submit"
        /\ rows[r].status = "FAILED"
        /\ rows[r].error_message = "max retries exceeded"
        /\ rows[r].retry_count = MaxTaskRetries
        /\ r \notin validTasks[w]
        /\ validTasks[w] # {}

\* C13 as stated: a pass that holds a message of a row which was COMPLETED or
\* FAILED before the pass claimed it does not end in a negative acknowledgement
\* when its ledger call fails.
\* With one worker loop, a row found COMPLETED, or FAILED by a ledger verdict,
\* when the ledger call of the pass has just failed was in that state before
\* the claim: the pass itself has marked nothing.
C13_AlwaysAcked ==
    [][\A w \in Loops, r \in RID :
          (pc[w] = "retry" /\ r \in RequestIDs(batchMessages[w]) /\ r \notin validTasks[w]
             /\ rows[r].status \in Terminal
             /\ rows[r].error_message # "max retries exceeded") => pc'[w] # "nack"]_vars

\* C13 (amended): a row that is COMPLETED or FAILED is changed in no field by
\* any later step; a pass that claims a batch holding a message of such a row
\* leaves the request out of validTasks and of the ledger entries, so no ledger
\* call of the pass counts for it; it acknowledges the message positively (the
\* committed offset passes the message) when it submits nothing or when the
\* ledger call succeeds, and negatively, with the rest of the batch, only when
\* claim_batch itself fails or the ledger call made for the other requests of
\* the batch fails as a whole.
C13_TerminalRedelivery ==
    [][\A w \in Loops, r \in RID :
          /\ rows[r].status \in Terminal => rows'[r] = rows[r]
          /\ (pc[w] = "claim" /\ pc'[w] # "claim" /\ r \in RequestIDs(batchMessages[w])
                /\ rows[r].status \in Terminal) =>
                /\ r \notin validTasks'[w]
                /\ \A i \in DOMAIN validEntries'[w] : validEntries'[w][i].RequestID # r
                /\ pc'[w] = "nack" => (faults' > faults /\ rows' = rows)
                /\ (pc'[w] # "nack" /\ validTasks'[w] = {}) => pc'[w] = "ack"
                /\ (pc'[w] # "nack" /\ validTasks'[w] # {}) => pc'[w] = "submit"
          /\ (pc[w] = "submit" /\ pc'[w] # "submit" /\ r \notin validTasks[w]) =>
                /\ callsFailed'[r] = callsFailed[r]
                /\ callsCommitted'[r] = callsCommitted[r]
          /\ (pc'[w] = "nack" /\ pc[w] # "nack") => pc[w] \in {"claim", "retry"}
          /\ (pc[w] = "ack" /\ pc'[w] = "loop") =>
                \A i \in DOMAIN batchMessages[w] : committed' > batchMessages[w][i].Offset]_vars

\* A message of a row that was already COMPLETED has been claimed again, in a
\* batch whose other request goes to the ledger.
C13_Witness ==
    \E w \in Loops : \E r \in RequestIDs(batchMessages[w]) :
        /\ pc[w] = "submit"
        /\ rows[r].status = "COMPLETED"
        /\ callsCommitted[r] = 1
        /\ r \notin validTasks[w]
        /\ validTasks[w] # {}

\* Arguments the two marking operations are tried with
SomeCompletions == [TxHash : {NumReq}, LogHashOnChain : Hashes, BlockHeight : {NumReq}]
SomeFailures == {"contract failed", "missing result"}

InBatcher ==
    Range(buffer) \cup Range(timerBatch) \cup Range(fwBatch)
    \cup UNION {Range(subBatch[g]) : g \in 1..NumSubmit}
    \cup UNION {Range(flushChan[i]) : i \in DOMAIN flushChan}

\* C15: no record handed to the batcher is lost: as long as no insert or
\* publish has failed, a record whose SubmitLog has returned is still held in
\* the batcher or has its row.  (When the flush channel is full, the drained
\* batch would have to go back to the buffer for this to hold.)
C15_NoRecordLost ==
    \A g \in 1..NumSubmit :
        sub[g] = "done" => (g \in InBatcher \/ rows[g] # NoRow \/ faults > 0)

\* A submission that filled the buffer has drained it and finds the flush
\* channel full.
C15_ChannelFull ==
    \E g \in 1..NumSubmit :
        /\ sub[g] = "send"
        /\ Len(subBatch[g]) >= IngestBatchSize
        /\ Len(flushChan) >= FlushChannelBuffer
        /\ ~chanClosed

\* The records in flush tasks waiting on the flush channel
InFlushChan == UNION {Range(flushChan[i]) : i \in DOMAIN flushChan}

\* C16, for the flush tasks: a record that is in a flush task waiting on the
\* flush channel while the batcher is still open, its SubmitLog having
\* returned, has its row and its queue message once Close has returned,
\* unless an insert or a publish failed.
C16_FlushedBeforeCloseReturns ==
    \A g \in 1..NumSubmit :
        []((closePc = "open" /\ sub[g] = "done" /\ g \in InFlushChan) =>
              [](closePc = "closed" =>
                    \/ rows[g] # NoRow /\ \E i \in DOMAIN queue : queue[i].RequestID = g
                    \/ faults > 0))

\* Close has returned and a flush task is still in the channel, its records
\* without a row.
C16_LeftInChannel ==
    /\ closePc = "closed"
    /\ faults = 0
    /\ \E g \in InFlushChan : sub[g] = "done" /\ rows[g] = NoRow

\* C17 as stated: the submission that has brought the buffer to batch_size
\* and drained it always gets its flush task into the flush channel (the
\* channel being open).
C17_EnqueuedAtOnce ==
    [][\A g \in 1..NumSubmit :
          (sub[g] = "send" /\ sub'[g] # "send" /\ ~chanClosed) =>
              flushChan' = Append(flushChan, subBatch[g])]_vars

\* C17 (amended): a submission goes on to flush exactly when its append brings
\* the buffer to batch_size or more; it then drains the whole buffer and, when
\* the open flush channel has room, enqueues it as one flush task in its next
\* step, without the timer; a submission that leaves fewer than batch_size
\* records enqueues nothing, and while no submission is about to drain,
\* records leave the buffer only in the timer's flushIfNeeded or in the flush
\* worker's shutdown branch.
C17_FlushAtBatchSize ==
    [][\A g \in 1..NumSubmit :
          /\ (sub[g] = "append" /\ sub'[g] # "append") =>
                /\ buffer' = Append(buffer, g)
                /\ flushChan' = flushChan
                /\ sub'[g] = IF Len(buffer') >= IngestBatchSize THEN "drain" ELSE "done"
          /\ (sub[g] = "drain" /\ sub'[g] # "drain") =>
                /\ sub'[g] = "send"
                /\ subBatch'[g] = buffer
                /\ buffer' = <<>>
          /\ (sub[g] = "send" /\ sub'[g] # "send" /\ ~chanClosed
                /\ Len(flushChan) < FlushChannelBuffer) =>
                /\ flushChan' = Append(flushChan, subBatch[g])
                /\ timerPc' = timerPc
          /\ ((\A h \in 1..NumSubmit : sub[h] # "drain")
                /\ ~(Range(buffer) \subseteq Range(buffer'))) =>
                \/ timerPc = "wait" /\ timerPc' = "send" /\ timerBatch' = buffer
                \/ fwPc = "select" /\ bpCtxDone /\ fwBatch' = buffer]_vars

\* A submission has brought the buffer to exactly batch_size, has drained it,
\* and the flush channel has room for the task.
C17_Witness ==
    \E g \in 1..NumSubmit :
        /\ sub[g] = "send"
        /\ Len(subBatch[g]) = IngestBatchSize
        /\ subBatch[g][IngestBatchSize] = g
        /\ Len(flushChan) < FlushChannelBuffer
        /\ ~chanClosed

\* The offsets of the messages of a batch
Offsets(batch) == {batch[i].Offset : i \in DOMAIN batch}

\* C18: a message that gets ack(false) is delivered again later: it is once
\* more among the loop's pending messages, also when later messages have been
\* acknowledged positively in between.
C18_NackedRedelivered ==
    \A w \in Loops : \A o \in 0..(NumReq - 1) :
        (pc[w] = "nack" /\ o \in Offsets(batchMessages[w]))
            ~> (pc[w] # "nack" /\ o \in Offsets(batchMessages[w]))

\* The pass of request 1 failed at the ledger and its message got ack(false);
\* the next message was then acknowledged positively: the committed offset is
\* past the first message, nothing is left to deliver, and its row is not
\* terminal.
C18_NackedThenCommitted ==
    /\ rows[1].status = "PROCESSING"
    /\ rows[1].error_message = "ledger error"
    /\ queue[1].RequestID = 1
    /\ committed > 0
    /\ fetchPos = Len(queue)
    /\ committed = Len(queue)
    /\ pc[1] = "loop"
    /\ batchMessages[1] = <<>>

C20_PendingNackedOnCancel ==
    [][\A w \in Loops :
          (pc'[w] = "stopped" /\ pc[w] # "stopped") =>
              /\ pc[w] = "loop"
              /\ ctxDone
              /\ committed' = committed
              /\ batchMessages'[w] = <<>>
              /\ rows' = rows
              /\ <<chain, txCount, callsFailed, callsCommitted>>'
                    = <<chain, txCount, callsFailed, callsCommitted>>
              /\ validTasks'[w] = {}]_vars

\* The root context is cancelled while the loop, in its select, holds a
\* pending message that no pass has taken.
C20_Witness ==
    \E w \in Loops :
        /\ ctxDone
        /\ pc[w] = "loop"
        /\ batchMessages[w] # <<>>
        /\ committed <= batchMessages[w][1].Offset

\* C21: whenever PublishBatch returns to processBatch, it has returned nil
\* only if every message of the batch is on the queue, and when it has
\* returned an error no message of the batch is on the queue.
C21_PublishAtomic ==
    [][(fwPc = "publish" /\ fwPc' # "publish") =>
          /\ kafkaErr' = "nil" => queue' = queue \o KafkaMessages(fwBatch)
          /\ kafkaErr' = "error" => queue' = queue]_vars

\* The producer built from the default configuration has returned nil for a
\* batch, and a request of an inserted row that is no longer in the batcher
\* has no message on the queue.
C21_SilentLoss ==
    /\ writer = NewKafkaProducer([Async |-> FALSE, RequiredAcks |-> ""])
    /\ kafkaErr = "nil"
    /\ fwPc = "select"
    /\ \E g \in 1..NumSubmit :
          /\ rows[g] # NoRow
          /\ \A i \in DOMAIN queue : queue[i].RequestID # g

\* C22: a call of submit is answered with an error exactly when its
\* log_content is empty or it carries a client hash other than the SHA-256 of
\* the content; an accepted call gets a receipt with a fresh request id and
\* the server's hash, and its record is started on its way to the batcher; a
\* rejected call draws no request id and leaves the batcher as it was.
C22_SubmitRejectsExactly ==
    [][receipt' # receipt =>
          LET bad == \/ receipt'.content = 0
                     \/ receipt'.clientHash # 0
                        /\ receipt'.clientHash # Sha256(receipt'.content)
          IN  /\ receipt'.err # "nil" <=> bad
              /\ receipt'.err = "nil" =>
                    /\ receipt'.RequestID = nextID
                    /\ receipt'.ServerLogHash = Sha256(receipt'.content)
                    /\ nextID' = nextID + 1
                    /\ sub'[nextID] = "append"
                    /\ inputs'[nextID].LogHash = Sha256(receipt'.content)
              /\ receipt'.err # "nil" =>
                    /\ receipt'.err = IF receipt'.content = 0
                                      THEN "log_content cannot be empty"
                                      ELSE "hash does not match"
                    /\ UNCHANGED <<nextID, inputs, sub, subBatch, buffer, flushChan, rows, queue>>]_vars

\* A call with a client hash that is not the hash of its content has been
\* rejected after an earlier call was accepted.
C22_Witness ==
    /\ receipt.err = "hash does not match"
    /\ receipt.content # 0
    /\ receipt.clientHash # Sha256(receipt.content)
    /\ nextID > 1

\* C23: no request id is held by two worker loops at once, be it among the
\* pending messages of a loop or in the batch a loop is processing.
C23_OneHolder ==
    \A v, w \in Loops :
        v # w => RequestIDs(batchMessages[v]) \cap RequestIDs(batchMessages[w]) = {}

\* One loop is in the ledger call for a request while the other loop holds a
\* message of the same request among its pending messages.
C23_HeldTwice ==
    \E v, w \in Loops : \E r \in validTasks[v] :
        /\ v # w
        /\ pc[v] = "submit"
        /\ pc[w] = "loop"
        /\ r \in RequestIDs(batchMessages[w])

\* C29: for every consumer count and worker concurrency, two different loops
\* that are started call Consume on different consumer instances; in
\* particular two loops of the running engine that both hold messages they
\* consumed got them from different consumers.
C29_OwnConsumer ==
    /\ \A count, concurrency \in 1..NumLoops :
          \A a, b \in WorkerLoops(count, concurrency) :
              a # b => ConsumerOf(a) # ConsumerOf(b)
    /\ \A v, w \in Loops :
          (v # w /\ batchMessages[v] # <<>> /\ batchMessages[w] # <<>>) =>
              ConsumerOf(LoopOf(v)) # ConsumerOf(LoopOf(w))

\* Two loops of one Worker hold consecutive messages of the partition, handed
\* out by the same reader without any restart in between.
C29_SharedReader ==
    /\ redelivered = 0
    /\ batchMessages[1] # <<>>
    /\ batchMessages[2] # <<>>
    /\ batchMessages[2][1].Offset = batchMessages[1][1].Offset + 1
    /\ ConsumerOf(LoopOf(1)) = ConsumerOf(LoopOf(2))

\* C24: when the ledger call succeeded and its result vector has no entry for
\* the log_hash of a submitted request, the pass ends with that request's row
\* FAILED with the missing-result message and goes on to the positive
\* acknowledgement of the batch.
C24_MissingResultFailed ==
    [][\A w \in Loops :
          (pc[w] = "markFailed" /\ pc'[w] # "markFailed") =>
              /\ pc'[w] = "ack"
              /\ \A r \in validTasks[w] :
                    (\A i \in DOMAIN results[w] : results[w][i].LogHash # rows[r].log_hash) =>
                        /\ rows'[r].status = "FAILED"
                        /\ rows'[r].error_message = "missing result"]_vars

\* A row made FAILED for a missing result, its batch about to be acknowledged
C24_Witness ==
    \E w \in Loops : \E r \in RequestIDs(batchMessages[w]) :
        /\ pc[w] = "ack"
        /\ rows[r].status = "FAILED"
        /\ rows[r].error_message = "missing result"
        /\ callsCommitted[r] = 1

\* C25: a ledger call ends at the deadline of blockchain_timeout: no call is
\* still in flight once its deadline has passed, and a call that ended after
\* its deadline ended as a whole-batch failure.
C25_EndsAtDeadline ==
    [][\A w \in Loops :
          /\ pc'[w] # "overdue"
          /\ (pc[w] = "overdue" /\ pc'[w] # "overdue") => pc'[w] = "retry"]_vars

\* The deadline of the call has passed and the loop is still in the call, the
\* rows of its batch claimed and its messages neither acknowledged nor refused.
C25_StillInCall ==
    \E w \in Loops :
        /\ pc[w] = "overdue"
        /\ validTasks[w] # {}
        /\ \A r \in validTasks[w] : rows[r].status = "PROCESSING"
        /\ batchMessages[w] # <<>>

\* wg.Wait() of Worker.Run has returned: every loop goroutine is done
RunReturned == \A w \in Loops : pc[w] = "stopped"

C28_PendingProcessed ==
    /\ \A w \in Loops :
          (pc[w] = "loop" /\ batchMessages[w] # <<>>) ~>
              (pc[w] = "claim" \/ (pc[w] = "stopped" /\ batchMessages[w] = <<>>))
    /\ [](\A w \in Loops :
            (pc[w] = "loop" /\ batchMessages[w] # <<>>) =>
                (batchTimer[w] = "armed" /\ Len(batchMessages[w]) < BatchSize))
    /\ [][\A w \in Loops :
            (pc'[w] = "claim" /\ pc[w] # "claim") =>
                \/ Len(batchMessages'[w]) >= BatchSize
                \/ (batchTimer[w] = "armed" /\ batchMessages'[w] = batchMessages[w])]_vars

\* A pass started by the expiry of the batch timer on a batch that is not full
C28_Witness ==
    \E w \in Loops :
        /\ pc[w] = "claim"
        /\ batchMessages[w] # <<>>
        /\ Len(batchMessages[w]) < BatchSize
        /\ batchTimer[w] = "off"

\* C30: the step in which the bulk insert of a flush task fails publishes
\* nothing, inserts nothing and leaves the buffer and the flush channel as
\* they are, the records of the task being held nowhere in the batcher
\* afterwards; and a record that was handed to the batcher and is neither held
\* in it nor has a row stays so: no later step inserts or publishes it.
C30_FailedInsertDrops ==
    [][/\ (fwPc = "insert" /\ fwPc' \notin {"insert", "publish"}) =>
            /\ queue' = queue
            /\ rows' = rows
            /\ buffer' = buffer
            /\ flushChan' = flushChan
            /\ \A g \in Range(fwBatch) : g \notin InBatcher'
       /\ \A g \in 1..NumSubmit :
            (g < nextID /\ sub[g] # "append" /\ g \notin InBatcher /\ rows[g] = NoRow) =>
                /\ rows'[g] = NoRow
                /\ g \notin InBatcher'
                /\ \A i \in DOMAIN queue' : queue'[i].RequestID # g]_vars

\* The insert of the flush task holding the first two records has failed:
\* both submissions have returned, nothing was published, and the records are
\* neither in the batcher nor in the table.
C30_Witness ==
    /\ faults = 1
    /\ kafkaErr = "none"
    /\ queue = <<>>
    /\ nextID = 3
    /\ sub[1] = "done" /\ sub[2] = "done"
    /\ InBatcher = {}
    /\ \A g \in 1..NumSubmit : rows[g] = NoRow
    /\ fwPc = "select"

\* The number of queue messages that carry request id g
MessagesOf(q, g) == Cardinality({i \in DOMAIN q : q[i].RequestID = g})

\* C31: the step in which processBatch publishes, whatever PublishBatch
\* returns, changes no row and leaves the records of the task, whose rows are
\* RECEIVED, held nowhere in the batcher; and for a record that has its row
\* and is no longer held in the batcher no later step of the ingestion service
\* changes the row or adds a queue message.
C31_FailedPublishLeavesReceived ==
    [][/\ (fwPc = "publish" /\ fwPc' # "publish") =>
            /\ rows' = rows
            /\ \A g \in Range(fwBatch) :
                  /\ rows[g] # NoRow
                  /\ rows[g].status = "RECEIVED"
                  /\ g \notin InBatcher'
       /\ \A g \in 1..NumSubmit :
            (rows[g] # NoRow /\ g \notin InBatcher) =>
                /\ rows'[g] = rows[g]
                /\ g \notin InBatcher'
                /\ MessagesOf(queue', g) = MessagesOf(queue, g)]_vars

\* PublishBatch has returned an error for a task whose insert had succeeded:
\* a record of it has its row in RECEIVED, no queue message, and is not held
\* in the batcher any more.
C31_Witness ==
    /\ kafkaErr = "error"
    /\ fwPc = "select"
    /\ \E g \in 1..NumSubmit :
          /\ rows[g] # NoRow
          /\ rows[g].status = "RECEIVED"
          /\ g \notin InBatcher
          /\ MessagesOf(queue, g) = 0

\* C32: the entries of a ledger call are built for exactly the requests the
\* claim returned in PROCESSING, one entry each, and follow one another in the
\* order of their messages among the pending messages.
C32_EntriesInOrder ==
    \A w \in Loops :
        pc[w] = "submit" =>
            /\ {validEntries[w][i].RequestID : i \in DOMAIN validEntries[w]} = validTasks[w]
            /\ Len(validEntries[w]) = Cardinality(validTasks[w])
            /\ \A i, j \in DOMAIN validEntries[w] :
                  i < j =>
                      \E p, q \in DOMAIN batchMessages[w] :
                          /\ p < q
                          /\ batchMessages[w][p].RequestID = validEntries[w][i].RequestID
                          /\ batchMessages[w][q].RequestID = validEntries[w][j].RequestID

\* A ledger call about to be made with the entry of the second pending message
\* before the entry of the first
C32_Reversed ==
    \E w \in Loops :
        /\ pc[w] = "submit"
        /\ Len(batchMessages[w]) = 2
        /\ Len(validEntries[w]) = 2
        /\ batchMessages[w][1].RequestID # batchMessages[w][2].RequestID
        /\ validEntries[w][1].RequestID = batchMessages[w][2].RequestID
        /\ validEntries[w][2].RequestID = batchMessages[w][1].RequestID

\* C33: no ledger call is made or in flight with an empty entry list; a claim
\* that succeeds and returns no row in PROCESSING leads straight to the
\* positive acknowledgement, without a ledger call, and the acknowledgement
\* commits the offset of every pending message.
C33_NoEmptyLedgerCall ==
    /\ [](\A w \in Loops : pc[w] \in {"submit", "overdue"} => validEntries[w] # <<>>)
    /\ [][\A w \in Loops :
            /\ (pc[w] = "claim" /\ pc'[w] \notin {"claim", "nack"} /\ validTasks'[w] = {}) =>
                  /\ pc'[w] = "ack"
                  /\ <<chain, txCount, callsFailed, callsCommitted>>'
                        = <<chain, txCount, callsFailed, callsCommitted>>
            /\ (pc[w] = "ack" /\ pc'[w] # "ack") =>
                  /\ pc'[w] = "loop"
                  /\ <<chain, txCount, callsFailed, callsCommitted>>'
                        = <<chain, txCount, callsFailed, callsCommitted>>
                  /\ \A i \in DOMAIN batchMessages[w] :
                        committed' > batchMessages[w][i].Offset]_vars

\* A pass whose claim returned no row in PROCESSING, every request of the batch
\* being FAILED at the retry cap without ever having been in a committed
\* ledger call, is about to acknowledge its batch.
C33_Witness ==
    \E w \in Loops :
        /\ pc[w] = "ack"
        /\ batchMessages[w] # <<>>
        /\ validTasks[w] = {}
        /\ \A r \in RequestIDs(batchMessages[w]) :
              /\ rows[r].status = "FAILED"
              /\ rows[r].error_message = "max retries exceeded"
              /\ callsCommitted[r] = 0

\* C34: a loop holds a received message together with its ack callback until
\* the callback is invoked, and invokes it once: the messages a loop holds
\* change only by the append of a received message or by the step that invokes
\* the callbacks of all of them, with true (the offsets are committed) at the
\* end of a pass that returned nil, with false (nothing is committed) at the
\* end of a pass that returned an error or on cancellation; after that step
\* the loop holds none of them, and a loop that has returned holds none.
C34_AckedOnce ==
    /\ [][\A w \in Loops :
            /\ batchMessages'[w] # batchMessages[w] =>
                  \/ /\ pc[w] = "loop"
                     /\ Len(batchMessages'[w]) = Len(batchMessages[w]) + 1
                     /\ SubSeq(batchMessages'[w], 1, Len(batchMessages[w])) = batchMessages[w]
                  \/ /\ pc[w] = "ack"
                     /\ batchMessages'[w] = <<>>
                     /\ \A i \in DOMAIN batchMessages[w] :
                           committed' > batchMessages[w][i].Offset
                  \/ /\ pc[w] = "nack"
                     /\ batchMessages'[w] = <<>>
                     /\ committed' = committed
                  \/ /\ pc[w] = "loop" /\ ctxDone /\ pc'[w] = "stopped"
                     /\ batchMessages'[w] = <<>>
                     /\ committed' = committed
            /\ (pc[w] \in {"ack", "nack"} /\ pc'[w] # pc[w]) => batchMessages'[w] = <<>>]_vars
    /\ [](\A w \in Loops : pc[w] = "stopped" => batchMessages[w] = <<>>)

\* Both loops have returned; the first message was acknowledged with true, the
\* second was received and refused.
C34_Witness ==
    /\ \A w \in Loops : pc[w] = "stopped" /\ batchMessages[w] = <<>>
    /\ committed = 1
    /\ fetchPos = 2

\* How often record g occurs in a batch
CountIn(batch, g) == Cardinality({i \in DOMAIN batch : batch[i] = g})

\* f[1] + ... + f[n]
RECURSIVE SumTo(_, _)
SumTo(f, n) == IF n = 0 THEN 0 ELSE f[n] + SumTo(f, n - 1)

\* How often record g is held in the batcher, over the buffer, the batches
\* drained by SubmitLog goroutines and by the timer, the flush tasks on the
\* channel and the task in processBatch
HeldCount(g) ==
    CountIn(buffer, g) + CountIn(timerBatch, g) + CountIn(fwBatch, g)
    + SumTo([h \in 1..NumSubmit |-> CountIn(subBatch[h], g)], NumSubmit)
    + SumTo([i \in DOMAIN flushChan |-> CountIn(flushChan[i], g)], Len(flushChan))

\* C35: a record is held at most once in the batcher, so in at most one flush
\* task; once its row is inserted it is held only by the task being published,
\* once it is published it is held nowhere; it has at most one queue message,
\* and the insert of a task never meets a row that is already there.
C35_OneFlushTask ==
    \A g \in 1..NumSubmit :
        /\ HeldCount(g) <= 1
        /\ MessagesOf(queue, g) <= 1
        /\ rows[g] # NoRow =>
              (HeldCount(g) = 0 \/ (fwPc = "publish" /\ CountIn(fwBatch, g) = 1))
        /\ MessagesOf(queue, g) = 1 => (HeldCount(g) = 0 /\ rows[g] # NoRow)
        /\ (fwPc = "insert" /\ CountIn(fwBatch, g) = 1) => rows[g] = NoRow

\* A task being inserted, another one waiting on the flush channel and a batch
\* copied out by the timer, all at the same time
C35_Witness ==
    /\ fwPc = "insert"
    /\ fwBatch # <<>>
    /\ timerPc = "send"
    /\ timerBatch # <<>>
    /\ \E h \in 1..NumSubmit : sub[h] = "done" /\ HeldCount(h) = 1
    /\ flushChan # <<>>

\* C36: no SubmitLog goroutine executes its send on the flush channel once
\* Close has closed the channel (such a send panics).
C36_NoSendOnClosed ==
    \A g \in 1..NumSubmit :
        /\ sub[g] # "panic"
        /\ chanClosed => sub[g] # "send"

\* A SubmitLog goroutine that was started before Close was called, and had
\* filled and drained the buffer, has sent on the closed channel.
C36_Panic ==
    \E g \in 1..NumSubmit :
        /\ sub[g] = "panic"
        /\ chanClosed
        /\ closePc = "closed"
        /\ Len(subBatch[g]) >= IngestBatchSize

\* C37: a row becomes COMPLETED only in the marking step of a pass whose
\* ledger call was committed, carried an entry built for that request with
\* the row's log_hash and returned Success for that log_hash, and the row then
\* gets the transaction id of that call; hence a COMPLETED row has been in a
\* committed call, its hash is stored on the ledger and its tx_hash is the id
\* of a committed transaction.
C37_CompletedBySuccess ==
    /\ [][\A r \in RID :
            (rows'[r].status = "COMPLETED" /\ rows[r].status # "COMPLETED") =>
                \E w \in Loops :
                    /\ pc[w] = "markCompleted"
                    /\ r \in validTasks[w]
                    /\ \E i \in DOMAIN validEntries[w] :
                          /\ validEntries[w][i].RequestID = r
                          /\ validEntries[w][i].LogHash = rows[r].log_hash
                    /\ \E i \in DOMAIN results[w] :
                          /\ results[w][i].LogHash = rows[r].log_hash
                          /\ results[w][i].Status = "Success"
                    /\ batchProof[w].TransactionID \in 1..txCount
                    /\ rows'[r].tx_hash = batchProof[w].TransactionID]_vars
    /\ [](\A r \in RID :
            rows[r].status = "COMPLETED" =>
                /\ callsCommitted[r] >= 1
                /\ rows[r].log_hash \in chain
                /\ rows[r].tx_hash \in 1..txCount)

\* A pass has made one request of its call COMPLETED with the transaction id
\* of the call, the other request of the call not having got Success.
C37_Witness ==
    \E w \in Loops : \E r1, r2 \in validTasks[w] :
        /\ pc[w] = "markFailed"
        /\ rows[r1].status = "COMPLETED"
        /\ rows[r1].tx_hash = batchProof[w].TransactionID
        /\ rows[r2].status = "PROCESSING"
        /\ VerdictOf(rows, results[w], r2) # "Success"

\* C38: a pass whose claim is refused by the store (an error of the store, or
\* the context cancelled) goes straight to the negative acknowledgement: the
\* claim step changes no row, makes no ledger call and builds no entries, and
\* the acknowledgement step that follows changes no row, makes no ledger call,
\* commits no offset and releases every pending message.
C38_ClaimErrorNacks ==
    [][\A w \in Loops :
          /\ (pc[w] = "claim" /\ pc'[w] # "claim" /\ RequestIDs(batchMessages[w]) # {}
                /\ (faults' > faults \/ ctxDone)) =>
                /\ pc'[w] = "nack"
                /\ rows' = rows
                /\ <<chain, txCount, callsFailed, callsCommitted>>'
                      = <<chain, txCount, callsFailed, callsCommitted>>
                /\ validTasks'[w] = {}
                /\ validEntries'[w] = <<>>
                /\ batchMessages'[w] = batchMessages[w]
          /\ (pc[w] = "nack" /\ pc'[w] # "nack") =>
                /\ pc'[w] = "loop"
                /\ rows' = rows
                /\ <<chain, txCount, callsFailed, callsCommitted>>'
                      = <<chain, txCount, callsFailed, callsCommitted>>
                /\ committed' = committed
                /\ batchMessages'[w] = <<>>]_vars

\* The claim of the first pass was refused by the store: the rows are as they
\* were, no ledger call was made, and the batch is about to be refused.
C38_Witness ==
    \E w \in Loops :
        /\ pc[w] = "nack"
        /\ ~ctxDone
        /\ faults = 1
        /\ batchMessages[w] # <<>>
        /\ \A r \in RID :
              /\ rows[r].status = "RECEIVED"
              /\ callsFailed[r] = 0
              /\ callsCommitted[r] = 0

\* The ledger calls that carry an entry for request r: those that have
\* returned, as a whole failure or committed, and those in flight
SubmitCalls(r) ==
    callsFailed[r] + callsCommitted[r]
    + Cardinality({w \in Loops : pc[w] \in {"submit", "overdue"} /\ r \in validTasks[w]})

\* C39: over the whole history and all worker loops, at most max_task_retries
\* ledger calls carry an entry for one request id, and never more than the
\* row's retry_count.
C39_SubmissionsCapped ==
    \A r \in RID :
        /\ SubmitCalls(r) <= MaxTaskRetries
        /\ SubmitCalls(r) <= rows[r].retry_count

\* A request that was carried by max_task_retries ledger calls and was then
\* made FAILED by the claim of a further pass
C39_Witness ==
    \E r \in RID :
        /\ SubmitCalls(r) = MaxTaskRetries
        /\ rows[r].status = "FAILED"
        /\ rows[r].error_message = "max retries exceeded"
====
